---- MODULE Spec2Model ----
(***************************************************************************)
(* A model of the query builder of musicNet (src/musicNet/__init__.py):    *)
(* the classes Entity, Node, Relationship, Property, Filter and Query.     *)
(* One Query object is modelled together with the entity objects its       *)
(* caller holds.  Text is modelled by TLA+ strings, Python's None by the   *)
(* empty tuple <<>> and a present value v by the one-element tuple <<v>>.  *)
(***************************************************************************)
EXTENDS Integers, Sequences, FiniteSets, TLC

(* ------------------------------ bounds -------------------------------- *)
\* number of names a Query registers before its owner stops creating entities
MaxNames == 3
\* number of relationships the owner adds to the match list
MaxMatch == 2
\* number of entries the owner adds to the where list
MaxWhere == 2
\* number of properties the owner adds to the returns and to the orders
MaxReturns == 1
\* number of times the owner assembles or executes the Query
MaxRuns == 2

(* --------------------------- input domains ----------------------------- *)
None == <<>>
Some(v) == <<v>>
NodeTypeArgs == {None, Some("Note")}
RelTypeArgs == {None, Some("NoteInMeasure")}
NameArgs == {None, Some("a")}
NodeIdArgs == {None, Some(7)}
OptionalArgs == {FALSE, TRUE}
PropertyNames == {"midi"}
Operators == {"=", "<"}
CypherTexts == {"1 = 1"}
LimitArgs == {0, 5}
RowCounts == {0, 1, 2}

(* ------------------------- sequence helpers --------------------------- *)
Range(s) == {s[i] : i \in 1..Len(s)}

RECURSIVE Join(_, _)
\* sep.join(texts)
Join(sep, texts) ==
    IF Len(texts) = 0 THEN ""
    ELSE IF Len(texts) = 1 THEN texts[1]
    ELSE texts[1] \o sep \o Join(sep, Tail(texts))

\* text.find(sub) >= 0
Contains(text, sub) ==
    \E i \in 1..(Len(text) - Len(sub) + 1) : SubSeq(text, i, i + Len(sub) - 1) = sub

\* the least index at which sub occurs in text, 0 when it does not occur
Find(text, sub) ==
    IF Contains(text, sub)
    THEN CHOOSE i \in 1..(Len(text) - Len(sub) + 1) :
            /\ SubSeq(text, i, i + Len(sub) - 1) = sub
            /\ \A j \in 1..(i - 1) : SubSeq(text, j, j + Len(sub) - 1) # sub
    ELSE 0

\* all orders in which the elements of a finite set can be enumerated
Orderings(S) ==
    {s \in [1..Cardinality(S) -> S] : \A i, j \in 1..Cardinality(S) : i # j => s[i] # s[j]}

(* ------------------------------ Entity -------------------------------- *)
\* '%04d' % n
Pad4(n) ==
    IF n < 10 THEN "000" \o ToString(n)
    ELSE IF n < 100 THEN "00" \o ToString(n)
    ELSE IF n < 1000 THEN "0" \o ToString(n)
    ELSE ToString(n)

\* the largest number random.randint(0, 9999) draws in Entity._addName
RandMax == 9999

\* testName of Entity._addName for the random number r
TestName(type, r) == (IF type = "*" THEN "Generic" ELSE type) \o Pad4(r)

\* the name with which the while loop of Entity._addName ends when no name
\* was supplied: a name <type>NNNN that is not yet used.  The number drawn
\* matters to no property of the Query, and the model takes the least one.
GeneratedName(used, type) ==
    TestName(type, CHOOSE r \in 0..RandMax : TestName(type, r) \notin Range(used))

\* Entity._addName without the test for a name already in use
AddNameNoCheck(used, name, type) ==
    LET nm == IF name = None THEN GeneratedName(used, type) ELSE name[1]
    IN [err |-> "", used |-> Append(used, nm), name |-> nm]

\* Entity._addName: the registry after the call, the entity's name and the
\* exception raised ("" when none)
AddName(used, name, type) ==
    LET nm == IF name = None THEN GeneratedName(used, type) ELSE name[1]
    IN IF nm \in Range(used)
       THEN [err |-> "ValueError", used |-> used, name |-> nm]
       ELSE [err |-> "", used |-> Append(used, nm), name |-> nm]

\* Node.__init__
NodeInit(used, nodeType, name, nodeId) ==
    LET type == IF nodeType = None THEN "*" ELSE nodeType[1]
        an == AddName(used, name, type)
    IN [err |-> an.err, used |-> an.used,
        node |-> [name |-> an.name, nodeType |-> type, id |-> nodeId]]

\* Relationship.__init__: the start and end nodes that were not given are
\* created (and named) before the relationship's own name is registered
RelationshipInit(used, relationType, start, end, name, optional) ==
    LET type == IF relationType = None THEN "*" ELSE relationType[1]
        s == IF start # None
             THEN [err |-> "", used |-> used, node |-> start[1]]
             ELSE NodeInit(used, None, None, None)
        e == IF end # None
             THEN [err |-> "", used |-> s.used, node |-> end[1]]
             ELSE NodeInit(s.used, None, None, None)
        an == AddName(e.used, name, type)
    IN [err |-> an.err, used |-> an.used,
        made |-> (IF start = None THEN {s.node} ELSE {}) \cup
                 (IF end = None THEN {e.node} ELSE {}),
        rel |-> [name |-> an.name, relationType |-> type, start |-> s.node,
                 end |-> e.node, optional |-> IF optional THEN "?" ELSE ""]]

\* Node.__repr__
NodeRepr(n) == n.name

\* Relationship.__repr__
RelationshipRepr(x) ==
    "(" \o NodeRepr(x.start) \o ")-[" \o x.name \o x.optional \o ":"
        \o x.relationType \o "]->(" \o NodeRepr(x.end) \o ")"

\* Entity.__getattr__: entity.<name> is a new Property token
Property(parent, name) == [k |-> "Property", parent |-> parent, name |-> name]

\* Property.__repr__
PropertyRepr(p) == p.parent.name \o "." \o p.name

(* ------------------------------ Filter -------------------------------- *)
\* the literal operands a caller passes to addComparisonFilter: Python 2
\* str, unicode, bool and int objects
StrLit(s) == [k |-> "str", s |-> s]
UnicodeLit(s) == [k |-> "unicode", s |-> s]
BoolLit(b) == [k |-> "bool", b |-> b]
IntLit(n) == [k |-> "int", n |-> n]
Literals == {StrLit("C"), UnicodeLit("C"), BoolLit(TRUE), IntLit(1)}

IsString(x) == x.k \in {"str", "unicode"}
IsNumber(x) == x.k \in {"bool", "int"}
NumberOf(x) == IF x.k = "bool" THEN (IF x.b THEN 1 ELSE 0) ELSE x.n

\* Python's == on two operands: str and unicode compare by their characters,
\* bool is a subclass of int (True == 1), Property tokens compare by
\* Entity.__eq__, everything else is unequal
PyEq(x, y) ==
    IF IsString(x) /\ IsString(y) THEN x.s = y.s
    ELSE IF IsNumber(x) /\ IsNumber(y) THEN NumberOf(x) = NumberOf(y)
    ELSE IF x.k = "Property" /\ y.k = "Property" THEN x = y
    ELSE FALSE

\* str(operand) / '%s' % operand
PyStr(x) ==
    IF IsString(x) THEN x.s
    ELSE IF x.k = "bool" THEN (IF x.b THEN "True" ELSE "False")
    ELSE IF x.k = "int" THEN ToString(x.n)
    ELSE PropertyRepr(x)

\* Filter.__init__
Filter(pre, operator, post) ==
    [k |-> "Filter", pre |-> pre, operator |-> operator, post |-> post]

\* the raw text appended by Query.addCypherFilter
CypherFilter(text) == [k |-> "text", text |-> text]

\* comparison of Filters by object identity: a newly made Filter is equal to
\* no element of Query.where
FilterEqIdentity(f, g) == FALSE

\* Entity.__eq__ on a Filter and an element of Query.where
FilterEq(f, g) ==
    /\ g.k = "Filter"
    /\ PyEq(f.pre, g.pre)
    /\ f.operator = g.operator
    /\ PyEq(f.post, g.post)

\* the rendering of one operand in Filter.__repr__
OperandRepr(operand) ==
    IF operand.k \in {"str", "bool"}
    THEN "\"" \o PyStr(operand) \o "\""
    ELSE PyStr(operand)

\* Filter.__repr__
FilterRepr(f) ==
    OperandRepr(f.pre) \o " " \o f.operator \o " " \o OperandRepr(f.post)

\* str(x) for an element of Query.where
WhereItemStr(w) == IF w.k = "Filter" THEN FilterRepr(w) ELSE w.text

(* ------------------------------- Query -------------------------------- *)
\* addComparisonFilter without the test for an equal Filter
AppendFilterNoDedup(whereList, filt) == Append(whereList, filt)

\* the body of Query.addComparisonFilter on the where list
AppendFilter(whereList, filt) ==
    IF \E i \in 1..Len(whereList) : FilterEq(filt, whereList[i])
    THEN whereList
    ELSE Append(whereList, filt)

RECURSIVE AddTypeFilters(_, _)
\* the loop over self.nodes that opens Query._assemblePattern, the nodes
\* being visited in the order nodeOrder
AddTypeFilters(whereList, nodeOrder) ==
    IF Len(nodeOrder) = 0 THEN whereList
    ELSE AddTypeFilters(
            AppendFilter(whereList,
                Filter(Property(nodeOrder[1], "type"), "=", StrLit(nodeOrder[1].nodeType))),
            Tail(nodeOrder))

\* truth value of a limit (Query.limit is '' until setLimit is called)
LimitIsTrue(lim) == lim # None /\ lim[1] # 0

MatchStr(matchList) ==
    IF Len(matchList) > 0
    THEN "match\n" \o Join(",\n", [i \in 1..Len(matchList) |-> RelationshipRepr(matchList[i])]) \o "\n"
    ELSE ""

WhereStr(whereList) ==
    IF Len(whereList) > 0
    THEN "where\n" \o Join("\nand ", [i \in 1..Len(whereList) |-> WhereItemStr(whereList[i])]) \o "\n"
    ELSE ""

\* a return clause that is left out when no returns were added
ReturnStrOmitted(returnList) ==
    IF Len(returnList) > 0
    THEN "return " \o Join(", ", [i \in 1..Len(returnList) |-> PropertyRepr(returnList[i])]) \o "\n"
    ELSE ""

ReturnStr(returnList) ==
    IF Len(returnList) > 0
    THEN "return " \o Join(", ", [i \in 1..Len(returnList) |-> PropertyRepr(returnList[i])]) \o "\n"
    ELSE "return *\n"

OrderStr(orderList) ==
    IF Len(orderList) > 0
    THEN "order by" \o Join(", ", [i \in 1..Len(orderList) |-> PropertyRepr(orderList[i])]) \o "\n"
    ELSE ""

LimitStr(lim) ==
    IF LimitIsTrue(lim) THEN "limit " \o ToString(lim[1]) \o "\n" ELSE ""

\* the text built by Query._assemblePattern once the start point is known
PatternText(startStr, matchList, whereList, returnList, orderList, lim) ==
    startStr \o MatchStr(matchList) \o WhereStr(whereList) \o ReturnStr(returnList)
        \o OrderStr(orderList) \o LimitStr(lim)

\* a start clause that binds the type of the node in place of its name
StartNodeStrByType(node) ==
    IF node.id # None /\ node.id[1] # 0
    THEN "start " \o node.nodeType \o "=node(" \o ToString(node.id[1]) \o ")\n"
    ELSE "start " \o node.nodeType \o "=node:node_auto_index(\"type:" \o node.nodeType \o "\")\n"

\* the start clauses written by setStartNode and setStartRelationship
StartNodeStr(node) ==
    IF node.id # None /\ node.id[1] # 0
    THEN "start " \o node.name \o "=node(" \o ToString(node.id[1]) \o ")\n"
    ELSE "start " \o node.name \o "=node:node_auto_index(\"type:" \o node.nodeType \o "\")\n"

StartRelationshipStr(relation) ==
    "start " \o relation.name \o "=relationship:relationship_auto_index(\"type:"
        \o relation.relationType \o "\")\n"

\* an assembly that hands back the clauses it has when the start point is
\* missing
AssemblePartial(startStr, matchList, whereList, returnList, orderList, lim, nodeOrder) ==
    LET w == AddTypeFilters(whereList, nodeOrder)
    IN IF startStr = None
       THEN [where |-> w, err |-> "SystemExit",
             text |-> Some(PatternText("", matchList, w, returnList, orderList, lim))]
       ELSE [where |-> w, err |-> "",
             text |-> Some(PatternText(startStr[1], matchList, w, returnList, orderList, lim))]

\* Query._assemblePattern as a function of the Query's attributes: the where
\* list after the call, the exception raised and the text returned.
\* nodeOrder is the order in which the loop visits the set self.nodes; without
\* a start point sys.exit(1) raises SystemExit after that loop has run.
Assemble(startStr, matchList, whereList, returnList, orderList, lim, nodeOrder) ==
    LET w == AddTypeFilters(whereList, nodeOrder)
    IN IF startStr = None
       THEN [where |-> w, err |-> "SystemExit", text |-> None]
       ELSE [where |-> w, err |-> "",
             text |-> Some(PatternText(startStr[1], matchList, w, returnList, orderList, lim))]

\* addRelationship recording the wildcard nodes too
AppendRelationshipAll(matchList, nodeSet, relation) ==
    [match |-> Append(matchList, relation),
     nodes |-> nodeSet \cup {relation.start, relation.end}]

\* Query.addRelationship once the Relationship object exists: the match list
\* and the node set after the call
AppendRelationship(matchList, nodeSet, relation) ==
    [match |-> Append(matchList, relation),
     nodes |-> nodeSet \cup {n \in {relation.start, relation.end} : n.nodeType # "*"}]

\* the identifiers a pattern binds: the start identifier (the text between
\* 'start ' and '=') and the names of the relationships and nodes of the
\* match clause
StartIdentifier(startStr) == SubSeq(startStr, 7, Find(startStr, "=") - 1)

BoundIdentifiers(startStr, matchList) ==
    {StartIdentifier(startStr)} \cup
    UNION {{matchList[i].name, matchList[i].start.name, matchList[i].end.name} :
              i \in 1..Len(matchList)}

\* the column names cypher.execute reports for a pattern: one per returned
\* property, or with 'return *' one per bound identifier
StoreColumns(startStr, matchList, returnList) ==
    IF Len(returnList) > 0
    THEN [i \in 1..Len(returnList) |-> PropertyRepr(returnList[i])]
    ELSE CHOOSE cols \in Orderings(BoundIdentifiers(startStr, matchList)) : TRUE

\* the rows cypher.execute reports: nRows rows with one cell per column
StoreRows(columns, nRows) ==
    [i \in 1..nRows |-> [j \in 1..Len(columns) |-> "cell"]]

(* ------------------------------- state -------------------------------- *)
VARIABLES
    usedNames,  \* Query._usedNames
    start,      \* Query.start: None or the start clause
    match,      \* Query.match
    where,      \* Query.where
    orders,     \* Query.orders
    returns,    \* Query.returns
    nodes,      \* Query.nodes
    limit,      \* Query.limit: None models the initial ''
    pattern,    \* Query.pattern
    results,    \* Query.results
    metadata,   \* Query.metadata
    ents,       \* the Node objects the owner of the Query holds: made by it,
                \* returned by setStartNode or reached through a Relationship
    rels,       \* the Relationship objects the owner holds, as returned by
                \* addRelationship and setStartRelationship
    op,         \* the last call made
    arg,        \* the argument of the last call: the name given to an entity,
                \* the Filter made by addComparisonFilter, None otherwise
    err,        \* the exception the last call raised, "" when it returned
    ret,        \* the pattern text assembled by the last call (returned by
                \* _assemblePattern, stored in Query.pattern by execute)
    runs,       \* number of _assemblePattern and execute calls made so far
    streak,     \* number of successful assemblies since the last other call
    missed,     \* an assembly has failed for want of a start point
    sent,       \* the last call sent the pattern to the store (cypher.execute)
    out,        \* the value returned by the last getResults or getMetadata
    rTypes,     \* Database.rTypes: None while the attribute does not exist
    nTypes,     \* Database.nTypes
    nodeProperties,     \* Database.nodeProperties
    relateProperties,   \* Database.relateProperties
    trips,      \* number of round-trips the schema listings made to the store
    th,         \* the callers of the schema listings: call stack and outcome
    first,      \* per schema listing, what its first completed call returned
    storeRels,  \* the store: number of relationships, by whether they are in
                \* the relationship auto index on "type"
    storeNodes, \* the store: number of nodes other than the reference node, by
                \* whether they are in the node auto index on "type"
    wpc,        \* Database.wipeDatabase: the loop it is in
    wipeTurn,   \* Database.wipeDatabase: whether the number of pages it has
                \* fetched is odd
    scoreOp,    \* score reconstruction: what was run last
    resultList, \* score reconstruction: the list it was run on
    scoreNodes, \* music21Score: its local `nodes`, None before it is built
    relations,  \* music21Score: its local `relations`, None before it is built
    score,      \* music21Score: the reconstructed tree that is returned
    scoreErr,   \* music21Score: the exception it raised, "" for none
    val,        \* _convertFromString: the value it was last called with
    converted,  \* _convertFromString: what it returned
    tokens,     \* the server's app.tokens: per token, the list stored for it
    rGens,      \* the server's app.rGens: the tokens with a result generator
    now,        \* the server's clock, time.time()
    served,     \* the server: the request handled last
    serverErr,  \* the server: the exception the last request raised
    callbacks,  \* Database._callbacks: per class name, the callbacks in the
                \* order they were added
    registered, \* the number of callbacks added
    dbNodes,    \* Database.nodes: the objects to be written as nodes
    edges,      \* Database.edges: the relationships to be written
    extracted,  \* the objects _extractObject was run on
    ingested,   \* the object _addNode was last called with
    ran,        \* the callbacks that were run on it, in order
    smArg,      \* _signedModulo: the arguments of the call, None before it
    smVal,      \* _signedModulo: its local `val`
    smSign,     \* _signedModulo: its local `sign`
    smPc,       \* _signedModulo: where the call is
    smRet,      \* _signedModulo: what it returned
    lrpPc,      \* listRelationshipProperties: where the call is
    lrpTodo,    \* listRelationshipProperties: the types its loop has yet to take
    lrpUsed,    \* listRelationshipProperties: the _usedNames of its Query q
    lrpStart,   \* listRelationshipProperties: the start of its Query q
    lrpMatch,   \* listRelationshipProperties: the match of its Query q
    lrpType,    \* listRelationshipProperties: the rType of the last turn
    lrpSample,  \* listRelationshipProperties: the relate[0] of the rows of the
                \* last turn
    lrpProperties,  \* listRelationshipProperties: self.relateProperties
    history,    \* Database._extractState['history'], None while the key is
                \* not there
    vlNotes,    \* the notes the Note callback was run on, in order
    vlEdges,    \* the edges the Note callback added to Database.edges
    vlPart,     \* the number of Parts the extraction has entered
    vlMeasure,  \* the Measure the extraction is in, None outside of one
    mOp,        \* materialization: what was run, "" before
    mRoot,      \* materialization: the id of the node it started from
    mRelates,   \* materialization: the relationship handles it was given
    mOut,       \* materialization: the children made, self.nodeLookup, the
                \* relationships followed and the exception raised
    hPc,        \* _addHierarchicalNodes: the step that was run last
    hNodes,     \* _addHierarchicalNodes: the handles in its local `nodes`
    hRelations, \* _addHierarchicalNodes: the handles in its local `relations`
    hBegan,     \* _addHierarchicalNodes: `nodes` when the last step began
    hErr,       \* _addHierarchicalNodes: the exception the last step raised
    fetched,    \* the calls of _addChildren made: node id and relationship type
    scoreOffset,    \* Query.scoreOffset: None while the attribute is not there
    firstMeasure    \* the firstMeasure flags addSignaturesAndClefs computed,
                    \* with the measures `nodes` held at that time

queryVars == <<start, match, where, orders, returns, nodes, limit>>

\* the Query, the entities its owner holds and the record of its last call
queryState == <<usedNames, queryVars, pattern, results, metadata, ents, rels, op, arg,
                err, ret, runs, streak, missed, sent, out>>

\* the schema cache of the Database and its callers
schemaVars == <<rTypes, nTypes, nodeProperties, relateProperties, trips, th, first>>

\* the store as wipeDatabase sees it, and the progress of wipeDatabase
wipeVars == <<storeRels, storeNodes, wpc, wipeTurn>>

\* the score reconstruction of Query.music21Score
scoreVars == <<scoreOp, resultList, scoreNodes, relations, score, scoreErr>>

\* the calls of _convertFromString
convertVars == <<val, converted>>

\* the token table of the server
serverVars == <<tokens, rGens, now, served, serverErr>>

\* the ingestion of music21 objects
ingestVars == <<callbacks, registered, dbNodes, edges, extracted, ingested, ran>>

\* everything but the Query
moduloVars == <<smArg, smVal, smSign, smPc, smRet>>

\* the components that have no part in the builder, the listings, the wipe,
\* the reconstruction of a score, the server and the callbacks of ingestion
propertyVars == <<lrpPc, lrpTodo, lrpUsed, lrpStart, lrpMatch, lrpType, lrpSample,
                  lrpProperties>>

voiceVars == <<history, vlNotes, vlEdges, vlPart, vlMeasure>>

materialVars == <<mOp, mRoot, mRelates, mOut>>

hierarchyVars == <<hPc, hNodes, hRelations, hBegan, hErr, fetched, scoreOffset,
                   firstMeasure>>

laterVars == <<moduloVars, propertyVars, voiceVars, materialVars, hierarchyVars>>

earlyVars == <<schemaVars, wipeVars, scoreVars, convertVars, serverVars, ingestVars>>

nonQueryVars == <<earlyVars, laterVars>>

notSchemaVars == <<queryState, wipeVars, scoreVars, convertVars, serverVars, ingestVars, laterVars>>
notWipeVars == <<queryState, schemaVars, scoreVars, convertVars, serverVars, ingestVars, laterVars>>
notScoreVars == <<queryState, schemaVars, wipeVars, convertVars, serverVars, ingestVars, laterVars>>
notConvertVars == <<queryState, schemaVars, wipeVars, scoreVars, serverVars, ingestVars, laterVars>>
notServerVars == <<queryState, schemaVars, wipeVars, scoreVars, convertVars, ingestVars, laterVars>>
notIngestVars == <<queryState, schemaVars, wipeVars, scoreVars, convertVars, serverVars, laterVars>>

vars == <<queryState, nonQueryVars>>

\* the callers of the Database
Threads == {1, 2}

\* the four schema listings
Listings == {"listRelationshipTypes", "listNodeTypes", "listNodeProperties",
             "listRelationshipProperties"}

\* a caller that is not inside a call
Idle == [stack |-> <<>>, rv |-> None, out |-> None, err |-> "", t0 |-> 0,
         again |-> FALSE, last |-> ""]

\* Database.__init__ : no schema attribute exists yet
SchemaInit ==
    /\ rTypes = None
    /\ nTypes = None
    /\ nodeProperties = None
    /\ relateProperties = None
    /\ trips = 0
    /\ th = [t \in Threads |-> Idle]
    /\ first = [m \in Listings |-> None]

\* the stores wipeDatabase is run on: numbers of relationships and of nodes
\* that the auto indexes hold, and that they do not hold
IndexedCounts == {0, 1, 100, 101, 201}
PlainCounts == {0, 1}

\* a store on which wipeDatabase has not been called
WipeInit ==
    /\ storeRels \in [indexed : IndexedCounts, plain : PlainCounts]
    /\ storeNodes \in [indexed : IndexedCounts, plain : PlainCounts]
    /\ wpc = "relationships"
    /\ wipeTurn = FALSE

\* the store is left alone
WipeIdle ==
    /\ storeRels = [indexed |-> 0, plain |-> 0]
    /\ storeNodes = [indexed |-> 0, plain |-> 0]
    /\ wpc = "relationships"
    /\ wipeTurn = FALSE

\* no score has been reconstructed
ScoreInit ==
    /\ scoreOp = ""
    /\ resultList = <<>>
    /\ scoreNodes = None
    /\ relations = None
    /\ score = None
    /\ scoreErr = ""

\* _convertFromString has not been called
ConvertInit ==
    /\ val = None
    /\ converted = None

\* the server has started: app.tokens = {}, app.rGens = {}
ServerInit ==
    /\ tokens = <<>>
    /\ rGens = {}
    /\ now = 0
    /\ served = ""
    /\ serverErr = ""

\* a Database without callbacks whose node and edge lists are empty
IngestInit ==
    /\ callbacks = <<>>
    /\ registered = 0
    /\ dbNodes = <<>>
    /\ edges = <<>>
    /\ extracted = {}
    /\ ingested = None
    /\ ran = <<>>

\* _signedModulo has not been called
ModuloInit ==
    /\ smArg = None
    /\ smVal = None
    /\ smSign = None
    /\ smPc = "idle"
    /\ smRet = None

\* listRelationshipProperties has not been called
PropertyInit ==
    /\ lrpPc = "idle"
    /\ lrpTodo = {}
    /\ lrpUsed = <<>>
    /\ lrpStart = None
    /\ lrpMatch = <<>>
    /\ lrpType = None
    /\ lrpSample = {}
    /\ lrpProperties = None

\* Database.addScore has set _extractState (lines 250-252): no history yet
VoiceInit ==
    /\ history = None
    /\ vlNotes = <<>>
    /\ vlEdges = {}
    /\ vlPart = 0
    /\ vlMeasure = None

\* nothing has been materialized
MaterialInit ==
    /\ mOp = ""
    /\ mRoot = None
    /\ mRelates = <<>>
    /\ mOut = None

\* _addHierarchicalNodes has not been called
HierarchyInit ==
    /\ hPc = "idle"
    /\ hNodes = {}
    /\ hRelations = {}
    /\ hBegan = {}
    /\ hErr = ""
    /\ fetched = <<>>
    /\ scoreOffset = None
    /\ firstMeasure = {}

LaterInit == ModuloInit /\ PropertyInit /\ VoiceInit /\ MaterialInit /\ HierarchyInit

\* Database.__init__ as far as it is modelled outside the Query
NonQueryInit ==
    /\ SchemaInit /\ WipeIdle /\ ScoreInit /\ ConvertInit /\ ServerInit /\ IngestInit
    /\ LaterInit

\* Query.__init__
Init ==
    /\ usedNames = <<>>
    /\ start = None
    /\ match = <<>>
    /\ where = <<>>
    /\ orders = <<>>
    /\ returns = <<>>
    /\ nodes = {}
    /\ limit = None
    /\ pattern = None
    /\ results = None
    /\ metadata = None
    /\ ents = {}
    /\ rels = {}
    /\ op = "Query"
    /\ arg = None
    /\ err = ""
    /\ ret = None
    /\ runs = 0
    /\ streak = 0
    /\ missed = FALSE
    /\ sent = FALSE
    /\ out = None
    /\ NonQueryInit

NodeArgs == {None} \cup {Some(n) : n \in ents}
RelationArgs == {None} \cup {Some(x) : x \in rels}
Runs == {"_assemblePattern", "execute"}
EntityCalls == {"Node", "setStartNode", "setStartRelationship", "addRelationship"}

\* bookkeeping of a call other than _assemblePattern and execute
Called(name, a, e) ==
    /\ op' = name
    /\ arg' = a
    /\ err' = e
    /\ ret' = None
    /\ streak' = 0
    /\ sent' = FALSE
    /\ out' = None
    /\ UNCHANGED <<runs, missed, nonQueryVars>>

\* bookkeeping of a call of _assemblePattern or execute
Ran(name, e, text) ==
    /\ op' = name
    /\ arg' = None
    /\ err' = e
    /\ ret' = text
    /\ runs' = runs + 1
    /\ streak' = IF e = "" THEN streak + 1 ELSE 0
    /\ missed' = (missed \/ e = "SystemExit")
    /\ UNCHANGED nonQueryVars

\* Node(query, nodeType, name, nodeId), called by the owner of the Query
NewNode(nodeType, name, nodeId) ==
    LET n == NodeInit(usedNames, nodeType, name, nodeId) IN
    /\ usedNames' = n.used
    /\ ents' = IF n.err = "" THEN ents \cup {n.node} ELSE ents
    /\ Called("Node", name, n.err)
    /\ UNCHANGED <<queryVars, pattern, results, metadata, rels>>

\* Query.setStartNode (its nodeId argument is not used by the method); the
\* node is returned to the caller
SetStartNode(node, nodeType, name) ==
    LET n == IF node = None
             THEN NodeInit(usedNames, nodeType, name, None)
             ELSE [err |-> "", used |-> usedNames, node |-> node[1]] IN
    /\ usedNames' = n.used
    /\ ents' = IF n.err = "" THEN ents \cup {n.node} ELSE ents
    /\ start' = IF n.err = "" THEN Some(StartNodeStr(n.node)) ELSE start
    /\ Called("setStartNode", name, n.err)
    /\ UNCHANGED <<match, where, orders, returns, nodes, limit, pattern, results,
                   metadata, rels>>

\* Query.addRelationship
AddRelationship(relation, relationType, startNode, endNode, name, optional) ==
    LET x == IF relation = None
             THEN RelationshipInit(usedNames, relationType, startNode, endNode, name,
                                   optional)
             ELSE [err |-> "", used |-> usedNames, made |-> {}, rel |-> relation[1]]
        added == AppendRelationship(match, nodes, x.rel) IN
    /\ usedNames' = x.used
    /\ ents' = IF x.err = "" THEN ents \cup x.made ELSE ents
    /\ rels' = IF x.err = "" THEN rels \cup {x.rel} ELSE rels
    /\ match' = IF x.err = "" THEN added.match ELSE match
    /\ nodes' = IF x.err = "" THEN added.nodes ELSE nodes
    /\ Called("addRelationship", name, x.err)
    /\ UNCHANGED <<start, where, orders, returns, limit, pattern, results, metadata>>

\* Query.setStartRelationship
SetStartRelationship(relation, relationType, startNode, endNode, name) ==
    LET x == IF relation = None
             THEN RelationshipInit(usedNames, relationType, startNode, endNode, name,
                                   FALSE)
             ELSE [err |-> "", used |-> usedNames, made |-> {}, rel |-> relation[1]]
        toAdd == x.rel \notin Range(match) /\ relationType # None
        added == IF toAdd
                 THEN AppendRelationship(match, nodes, x.rel)
                 ELSE [match |-> match, nodes |-> nodes] IN
    /\ usedNames' = x.used
    /\ ents' = IF x.err = "" THEN ents \cup x.made ELSE ents
    /\ rels' = IF x.err = "" THEN rels \cup {x.rel} ELSE rels
    /\ match' = IF x.err = "" THEN added.match ELSE match
    /\ nodes' = IF x.err = "" THEN added.nodes ELSE nodes
    /\ start' = IF x.err = "" THEN Some(StartRelationshipStr(x.rel)) ELSE start
    /\ Called("setStartRelationship", name, x.err)
    /\ UNCHANGED <<where, orders, returns, limit, pattern, results, metadata>>

\* the Property tokens the owner can form from the entities it holds
PropertyArgs == {Property(e, p) : e \in ents \cup rels, p \in PropertyNames}
OperandArgs == PropertyArgs \cup Literals

\* Query.addComparisonFilter
AddComparisonFilter(pre, operator, post) ==
    /\ where' = AppendFilter(where, Filter(pre, operator, post))
    /\ Called("addComparisonFilter", Some(Filter(pre, operator, post)), "")
    /\ UNCHANGED <<usedNames, start, match, orders, returns, nodes, limit, pattern,
                   results, metadata, ents, rels>>

\* Query.addCypherFilter
AddCypherFilter(text) ==
    /\ where' = Append(where, CypherFilter(text))
    /\ Called("addCypherFilter", None, "")
    /\ UNCHANGED <<usedNames, start, match, orders, returns, nodes, limit, pattern,
                   results, metadata, ents, rels>>

\* Query.addReturns
AddReturns(props) ==
    /\ returns' = returns \o props
    /\ Called("addReturns", None, "")
    /\ UNCHANGED <<usedNames, start, match, where, orders, nodes, limit, pattern,
                   results, metadata, ents, rels>>

\* Query.setLimit
SetLimit(n) ==
    /\ limit' = Some(n)
    /\ Called("setLimit", None, "")
    /\ UNCHANGED <<usedNames, start, match, where, orders, returns, nodes, pattern,
                   results, metadata, ents, rels>>

\* Query.setOrder
SetOrder(propertyObject) ==
    /\ orders' = Append(orders, propertyObject)
    /\ Called("setOrder", None, "")
    /\ UNCHANGED <<usedNames, start, match, where, returns, nodes, limit, pattern,
                   results, metadata, ents, rels>>

\* Query._assemblePattern, called directly
AssemblePattern(nodeOrder) ==
    LET a == Assemble(start, match, where, returns, orders, limit, nodeOrder) IN
    /\ where' = a.where
    /\ Ran("_assemblePattern", a.err, a.text)
    /\ sent' = FALSE
    /\ out' = None
    /\ UNCHANGED <<usedNames, start, match, orders, returns, nodes, limit, pattern,
                   results, metadata, ents, rels>>

\* the part of Query.execute shared with getResults and getMetadata, which
\* call it: the pattern is assembled and sent to the store, which answers
\* with nRows rows
RunExecute(name, nodeOrder, nRows) ==
    LET a == Assemble(start, match, where, returns, orders, limit, nodeOrder) IN
    /\ where' = a.where
    /\ Ran(name, a.err, a.text)
    /\ sent' = (a.err = "")
    /\ IF a.err # ""
       THEN UNCHANGED <<pattern, results, metadata>>
       ELSE LET columns == StoreColumns(start[1], match, returns) IN
            /\ pattern' = a.text
            /\ results' = Some(StoreRows(columns, nRows))
            /\ metadata' = Some(columns)
    /\ UNCHANGED <<usedNames, start, match, orders, returns, nodes, limit, ents, rels>>

\* Query.execute
Execute(nodeOrder, nRows) ==
    /\ RunExecute("execute", nodeOrder, nRows)
    /\ out' = None

\* a test for a missing answer by truth value, which an empty list fails too
IsFalsy(cached) == cached = None \/ cached[1] = <<>>

\* a cached answer is missing: self.results == None, self.metadata == None
IsUnset(cached) == cached = None

\* the bookkeeping of a getResults or getMetadata call that is answered from
\* the Query's attributes
Answered(name) ==
    /\ op' = name
    /\ arg' = None
    /\ err' = ""
    /\ ret' = None
    /\ streak' = 0
    /\ sent' = FALSE
    /\ UNCHANGED <<usedNames, queryVars, pattern, results, metadata, ents, rels, runs,
                   missed, nonQueryVars>>

\* Query.getResults
GetResults(nodeOrder, nRows) ==
    IF IsUnset(results)
    THEN /\ RunExecute("getResults", nodeOrder, nRows)
         /\ out' = results'
    ELSE /\ Answered("getResults")
         /\ out' = results

\* Query.getMetadata
GetMetadata(nodeOrder, nRows) ==
    IF IsUnset(metadata)
    THEN /\ RunExecute("getMetadata", nodeOrder, nRows)
         /\ out' = metadata'
    ELSE /\ Answered("getMetadata")
         /\ out' = metadata

(* --------------------------- schema listings --------------------------- *)
\* what the store holds: the (start type, relationship type, end type)
\* combinations, and the property names of its node and relationship types
StoreRelationships ==
    {<<"Note", "NoteInMeasure", "Measure">>, <<"Measure", "MeasureInPart", "Part">>}
StoreRelationshipTypes == {x[2] : x \in StoreRelationships}
StoreNodeTypes == {x[1] : x \in StoreRelationships} \cup {x[3] : x \in StoreRelationships}
StoreNodeProperties == {<<"Note", "midi">>, <<"Measure", "number">>}
StoreRelationshipProperties == {<<"NoteInMeasure", "offset">>}

\* an attribute test that never finds the attribute
HasAttrNever(attr) == FALSE

\* hasattr(self, <attribute>)
HasAttr(attr) == attr # None

Frame(m, pc) == [m |-> m, pc |-> pc, todo |-> {}, acc |-> {}]

\* the frame in which caller t is executing
Top(t) == th[t].stack[Len(th[t].stack)]

InMethod(t, m) == th[t].stack # <<>> /\ Top(t).m = m

\* caller t goes on in its current frame, changed to f
Goto(t, f) ==
    th' = [th EXCEPT ![t].stack = [@ EXCEPT ![Len(@)] = f]]

\* caller t calls method m from its current frame, where it resumes at pc
Push(t, pc, m) ==
    th' = [th EXCEPT ![t].stack = Append([@ EXCEPT ![Len(@)].pc = pc], Frame(m, "check"))]

\* the current method of caller t returns v: to the calling frame, or to the
\* caller itself when the stack empties
Return(t, v) ==
    LET rest == SubSeq(th[t].stack, 1, Len(th[t].stack) - 1) IN
    IF rest = <<>>
    THEN /\ th' = [th EXCEPT ![t] = [@ EXCEPT !.stack = <<>>, !.rv = None, !.out = Some(v)]]
         /\ first' = IF first[th[t].last] = None
                     THEN [first EXCEPT ![th[t].last] = Some(v)]
                     ELSE first
    ELSE /\ th' = [th EXCEPT ![t] = [@ EXCEPT !.stack = rest, !.rv = Some(v)]]
         /\ UNCHANGED first

\* an exception unwinds the whole stack of caller t
Raise(t, e) ==
    /\ th' = [th EXCEPT ![t] = [@ EXCEPT !.stack = <<>>, !.rv = None, !.out = None, !.err = e]]
    /\ UNCHANGED first

\* caller t, being outside any call, calls the listing m
SchemaCall(t, m) ==
    /\ th[t].stack = <<>>
    /\ th' = [th EXCEPT ![t] = [stack |-> <<Frame(m, "check")>>, rv |-> None, out |-> None,
                                err |-> "", t0 |-> trips, again |-> first[m] # None,
                                last |-> m]]
    /\ UNCHANGED <<rTypes, nTypes, nodeProperties, relateProperties, trips, first, notSchemaVars>>

\* one step of Database.listRelationshipTypes
ListRelationshipTypesStep(t) ==
    /\ InMethod(t, "listRelationshipTypes")
    /\ LET f == Top(t) IN
       CASE f.pc = "check" ->
              /\ IF HasAttr(rTypes)
                 THEN Return(t, rTypes[1])
                 ELSE Goto(t, [f EXCEPT !.pc = "init1"]) /\ UNCHANGED first
              /\ UNCHANGED <<rTypes, nTypes, trips>>
         [] f.pc = "init1" ->
              /\ rTypes' = Some(<<>>)
              /\ Goto(t, [f EXCEPT !.pc = "init2"])
              /\ UNCHANGED <<nTypes, trips, first>>
         [] f.pc = "init2" ->
              /\ nTypes' = Some({})
              /\ Goto(t, [f EXCEPT !.pc = "types", !.acc = {}])
              /\ UNCHANGED <<rTypes, trips, first>>
         [] f.pc = "types" ->
              /\ trips' = trips + 1
              /\ Goto(t, [f EXCEPT !.pc = "loop", !.todo = StoreRelationshipTypes])
              /\ UNCHANGED <<rTypes, nTypes, first>>
         [] f.pc = "loop" ->
              IF f.todo = {}
              THEN /\ Goto(t, [f EXCEPT !.pc = "fill"])
                   /\ UNCHANGED <<rTypes, nTypes, trips, first>>
              ELSE \E r \in f.todo :
                     LET rows == {x \in StoreRelationships : x[2] = r} IN
                     /\ trips' = trips + 1
                     /\ nTypes' = Some(nTypes[1] \cup {x[1] : x \in rows} \cup {x[3] : x \in rows})
                     /\ Goto(t, [f EXCEPT !.todo = @ \ {r}, !.acc = @ \cup rows])
                     /\ UNCHANGED <<rTypes, first>>
         [] f.pc = "fill" ->
              IF f.acc = {}
              THEN Return(t, rTypes[1]) /\ UNCHANGED <<rTypes, nTypes, trips>>
              ELSE \E x \in f.acc :
                     /\ rTypes' = Some(Append(rTypes[1], x))
                     /\ Goto(t, [f EXCEPT !.acc = @ \ {x}])
                     /\ UNCHANGED <<nTypes, trips, first>>
    /\ UNCHANGED <<nodeProperties, relateProperties, notSchemaVars>>

\* one step of Database.listNodeTypes
ListNodeTypesStep(t) ==
    /\ InMethod(t, "listNodeTypes")
    /\ LET f == Top(t) IN
       CASE f.pc = "check" ->
              IF HasAttr(nTypes)
              THEN Return(t, nTypes[1])
              ELSE Push(t, "ret", "listRelationshipTypes") /\ UNCHANGED first
         [] f.pc = "ret" ->
              IF nTypes = None
              THEN Raise(t, "AttributeError")
              ELSE Return(t, nTypes[1])
    /\ UNCHANGED <<rTypes, nTypes, nodeProperties, relateProperties, trips, notSchemaVars>>

\* one step of Database.listNodeProperties; the Query it runs per node type is
\* one round-trip that answers with the nodes of that type
ListNodePropertiesStep(t) ==
    /\ InMethod(t, "listNodeProperties")
    /\ LET f == Top(t) IN
       CASE f.pc = "check" ->
              /\ IF HasAttr(nodeProperties)
                 THEN Return(t, nodeProperties[1])
                 ELSE /\ IF ~HasAttr(nTypes)
                         THEN Push(t, "init", "listNodeTypes")
                         ELSE Goto(t, [f EXCEPT !.pc = "init"])
                      /\ UNCHANGED first
              /\ UNCHANGED <<nodeProperties, trips>>
         [] f.pc = "init" ->
              /\ nodeProperties' = Some(<<>>)
              /\ Goto(t, [f EXCEPT !.pc = "loop", !.todo = nTypes[1]])
              /\ UNCHANGED <<trips, first>>
         [] f.pc = "loop" ->
              IF f.todo = {}
              THEN Return(t, nodeProperties[1]) /\ UNCHANGED <<nodeProperties, trips>>
              ELSE \E nodeType \in f.todo :
                   \E props \in Orderings({x \in StoreNodeProperties : x[1] = nodeType}) :
                     /\ trips' = trips + 1
                     /\ nodeProperties' = Some(nodeProperties[1] \o props)
                     /\ Goto(t, [f EXCEPT !.todo = @ \ {nodeType}])
                     /\ UNCHANGED first
    /\ UNCHANGED <<rTypes, nTypes, relateProperties, notSchemaVars>>

\* one step of Database.listRelationshipProperties; the Query it runs per
\* relationship type is one round-trip that answers with the relationships
\* of that type
ListRelationshipPropertiesStep(t) ==
    /\ InMethod(t, "listRelationshipProperties")
    /\ LET f == Top(t) IN
       CASE f.pc = "check" ->
              /\ IF HasAttr(relateProperties)
                 THEN Return(t, relateProperties[1])
                 ELSE Push(t, "init", "listRelationshipTypes") /\ UNCHANGED first
              /\ UNCHANGED <<relateProperties, trips>>
         [] f.pc = "init" ->
              /\ relateProperties' = Some(<<>>)
              /\ Goto(t, [f EXCEPT !.pc = "loop", !.todo = {x[2] : x \in Range(th[t].rv[1])}])
              /\ UNCHANGED <<trips, first>>
         [] f.pc = "loop" ->
              IF f.todo = {}
              THEN Return(t, relateProperties[1]) /\ UNCHANGED <<relateProperties, trips>>
              ELSE \E rType \in f.todo :
                   \E props \in Orderings({x \in StoreRelationshipProperties : x[1] = rType}) :
                     /\ trips' = trips + 1
                     /\ relateProperties' = Some(relateProperties[1] \o props)
                     /\ Goto(t, [f EXCEPT !.todo = @ \ {rType}])
                     /\ UNCHANGED first
    /\ UNCHANGED <<rTypes, nTypes, nodeProperties, notSchemaVars>>

(* ----------------------------- wipeDatabase ---------------------------- *)
\* q.setLimit(100): the size of the pages wipeDatabase deletes
PageSize == 100

Min(a, b) == IF a < b THEN a ELSE b

\* graph_db.get_relationship_count()
RelationshipCount == storeRels.indexed + storeRels.plain

\* graph_db.get_node_count(): the reference node is always there
NodeCount == 1 + storeNodes.indexed + storeNodes.plain

\* one turn of the first loop of wipeDatabase: a page of the relationships
\* found through the auto index is deleted
WipeRelationships ==
    /\ wpc = "relationships"
    /\ IF RelationshipCount # 0
       THEN /\ storeRels' = [storeRels EXCEPT !.indexed = @ - Min(PageSize, @)]
            /\ wipeTurn' = ~wipeTurn
            /\ UNCHANGED wpc
       ELSE /\ wpc' = "nodes"
            /\ UNCHANGED <<storeRels, wipeTurn>>
    /\ UNCHANGED <<storeNodes, notWipeVars>>

\* one turn of the second loop of wipeDatabase: a page of the nodes found
\* through the auto index is deleted
WipeNodes ==
    /\ wpc = "nodes"
    /\ IF NodeCount > 1
       THEN /\ storeNodes' = [storeNodes EXCEPT !.indexed = @ - Min(PageSize, @)]
            /\ wipeTurn' = ~wipeTurn
            /\ UNCHANGED wpc
       ELSE /\ wpc' = "done"
            /\ UNCHANGED <<storeNodes, wipeTurn>>
    /\ UNCHANGED <<storeRels, notWipeVars>>

(* ------------------------- score reconstruction ----------------------- *)
\* handles of the stored nodes a result list can hold (py2neo.neo4j.Node),
\* with the `type` property musicNet writes on them
NodeHandles ==
    {[kind |-> "Node", id |-> 1, type |-> "Score"],
     [kind |-> "Node", id |-> 2, type |-> "Score"],
     [kind |-> "Node", id |-> 3, type |-> "Part"],
     [kind |-> "Node", id |-> 4, type |-> "Measure"],
     [kind |-> "Node", id |-> 5, type |-> "Note"]}

\* handles of the stored relationships (py2neo.neo4j.Relationship)
RelationshipHandles ==
    {[kind |-> "Relationship", id |-> 1, type |-> "NoteInMeasure",
      start_node |-> 5, end_node |-> 4],
     [kind |-> "Relationship", id |-> 2, type |-> "MeasureInPart",
      start_node |-> 4, end_node |-> 3],
     [kind |-> "Relationship", id |-> 3, type |-> "PartInScore",
      start_node |-> 3, end_node |-> 1]}

Handles == NodeHandles \cup RelationshipHandles

MaxResults == 3

\* the result lists music21Score is given
ResultLists == UNION {[1..n -> Handles] : n \in 0..MaxResults}

IsNode(h) == h.kind = "Node"

\* a str, or a Relationship of the Query, passed as the `relation` argument
StrArg(text) == [k |-> "str", v |-> text]
RelationshipArg(rel) == [k |-> "Relationship", v |-> rel]

\* Query.addRelationship with an object given as `relation`: the object is
\* appended to the match list and its start and end attributes are read
AddRelationshipObject(m, ns, relation) ==
    IF relation.k = "Relationship"
    THEN [err |-> ""] @@ AppendRelationship(m, ns, relation.v)
    ELSE [err |-> "AttributeError", match |-> Append(m, relation.v), nodes |-> ns]

\* the stored nodes and relationships on the containment chains above the
\* Note handles of a result list
RECURSIVE Above(_, _)
Above(ids, n) ==
    LET up == {r \in RelationshipHandles : r.start_node \in ids}
        more == ids \cup {r.end_node : r \in up} IN
    IF n = 0 \/ more = ids THEN ids ELSE Above(more, n - 1)

Hierarchy(items) ==
    LET notes == {items[i].id : i \in {j \in 1..Len(items) :
                      IsNode(items[j]) /\ items[j].type = "Note"}}
        ids == Above(notes, Cardinality(NodeHandles)) IN
    {h \in NodeHandles : h.id \in ids} \cup
    {r \in RelationshipHandles : r.start_node \in ids}

\* Query._addHierarchicalNodes: the query for the structure above a note is
\* built first, its relationships being added by their type names
AddHierarchicalNodes(items) ==
    LET n == NodeInit(<<>>, Some("Note"), None, None)
        inMeasure == AddRelationshipObject(<<>>, {}, StrArg("NoteInMeasure"))
        found == Hierarchy(items)
        order == CHOOSE o \in Orderings(found) : TRUE IN
    IF inMeasure.err # ""
    THEN [err |-> inMeasure.err, results |-> items]
    ELSE [err |-> "", results |-> items \o order]

\* Query.getResultProperties: each handle with the dict of its properties
GetResultProperties(result) ==
    [i \in 1..Len(result) |-> <<result[i], [type |-> result[i].type]>>]

\* music21Score, lines 1265-1271: the first tuple of every node id
NodeMap(result) ==
    LET at == {i \in 1..Len(result) : IsNode(result[i][1])} IN
    [x \in {result[i][1].id : i \in at} |->
        result[CHOOSE i \in at : /\ result[i][1].id = x
                                 /\ \A j \in at : result[j][1].id = x => i <= j]]

\* music21Score, lines 1265-1271: the tuples of the relationships, in order
RelationTuples(result) == SelectSeq(result, LAMBDA t : ~IsNode(t[1]))

\* tuple[key] of Python: a tuple is indexed by integers only
TupleGetItem(t, key) ==
    IF key \in {"type"} THEN [err |-> "TypeError"] ELSE [err |-> "", v |-> t[key]]

\* what line 1274,  [x for x in nodes if nodes[1]['type'] == 'Score'][0],  does
\* when every key is taken to be that of a Score
ScoreNodeIdFirst(ns) ==
    LET scores == {x \in DOMAIN ns : ns[x][2].type = "Score"} IN
    IF scores = {} THEN [err |-> "IndexError", id |-> None]
    ELSE [err |-> "", id |-> Some(CHOOSE x \in scores : \A y \in scores : x <= y)]

\* line 1274:  scoreNodeId = [x for x in nodes if nodes[1]['type'] == 'Score'][0]
\* the condition looks up key 1 of the dict and indexes the tuple found there
\* with 'type'
ScoreNodeId(ns) ==
    IF DOMAIN ns = {} THEN [err |-> "IndexError", id |-> None]
    ELSE IF 1 \notin DOMAIN ns THEN [err |-> "KeyError", id |-> None]
    ELSE LET item == TupleGetItem(ns[1], "type") IN
         IF item.err # "" THEN [err |-> item.err, id |-> None]
         ELSE LET scores == {x \in DOMAIN ns : item.v = "Score"} IN
              IF scores = {} THEN [err |-> "IndexError", id |-> None]
              ELSE [err |-> "",
                    id |-> Some(CHOOSE x \in scores : \A y \in scores : x <= y)]

\* str.endswith
EndsWith(text, suffix) ==
    /\ Len(suffix) <= Len(text)
    /\ SubSeq(text, Len(text) - Len(suffix) + 1, Len(text)) = suffix

\* the music21 classes Query._listMusic21Classes finds for the types of the
\* stored nodes, and those of them that have insert() or append()
ClassLookup == {"Score", "Part", "Measure", "Note", "Beam", "Instrument", "StaffGroup"}
Containers == {"Score", "Part", "Measure"}

\* Query._constructCallbacks as Query._defaultCallbacks fills it: the callback
\* set for a relationship type, by the name of its function
ConstructCallbacks ==
    {<<"TieInNote", "setTie">>, <<"BeamInNote", "addBeam">>,
     <<"ContributorInMetadata", "addContributorText">>,
     <<"PartInScore", "removePartNumber">>,
     <<"MeasureInPart", "addSignaturesAndClefs">>,
     <<"MidmeasureClefInMeasure", "addMidmeasureClef">>,
     <<"NoteInMeasure", "setPitchAndDuration">>,
     <<"ArticulationInNote", "replaceWithSpecificClass">>,
     <<"ExpressionInNote", "replaceWithSpecificClass">>,
     <<"PartInStaffGroup", "addPartsToStaffGroup">>,
     <<"spannerTo", "replaceWithSpecificSpanner">>,
     <<"default", "defaultChild">>}

\* lines 1567-1570: the callback of the relationship type, or that of 'default'
ConstructCallback(rType) ==
    LET named == IF \E c \in ConstructCallbacks : c[1] = rType THEN rType ELSE "default"
    IN (CHOOSE c \in ConstructCallbacks : c[1] = named)[2]

\* what a callback returns, a child or None, or the exception it ends with:
\* addBeam and addPartsToStaffGroup return None; replaceWithSpecificSpanner
\* looks both ends up in nodeLookup and then calls self._addProperties, which
\* no class defines; defaultChild returns the object it was given (None for a
\* type without a class) after it has inserted or appended it, and leaves the
\* program when the parent can do neither
RunConstructCallback(callback, childType, parentType, r, lookup) ==
    CASE callback \in {"addBeam", "addPartsToStaffGroup"} ->
           [err |-> "", child |-> FALSE]
      [] callback = "replaceWithSpecificSpanner" ->
           [err |-> IF {r.start_node, r.end_node} \subseteq lookup
                    THEN "AttributeError" ELSE "KeyError",
            child |-> FALSE]
      [] callback = "defaultChild" ->
           IF parentType \in Containers
           THEN [err |-> "", child |-> childType \in ClassLookup]
           ELSE [err |-> "SystemExit", child |-> FALSE]
      [] OTHER -> [err |-> "", child |-> TRUE]

\* a construction that copies the stored properties whatever the callback
\* returned
AddMusic21ChildCopying(childType, parentType, r, lookup) ==
    LET c == RunConstructCallback(ConstructCallback(r.type), childType, parentType, r,
                                  lookup)
    IN [err |-> c.err, child |-> c.child, copied |-> c.err = ""]

\* Query._addMusic21Child: the callback is run, and _addMusic21Properties
\* copies the stored properties when it returned a child
AddMusic21Child(childType, parentType, r, lookup) ==
    LET c == RunConstructCallback(ConstructCallback(r.type), childType, parentType, r,
                                  lookup)
    IN [err |-> c.err, child |-> c.child, copied |-> c.err = "" /\ c.child]

\* no child has been constructed yet: self.nodeLookup = {}
NoChildren == [err |-> "", edges |-> {}, events |-> <<>>, lookup |-> {}]

\* Query._addHierarchicalMusic21Data: the children of a parent are the start
\* nodes of the relationships that end in it, taken by ascending id. The
\* result holds the (child, parent) pairs added, self.nodeLookup and one
\* event for every relationship that was followed
RECURSIVE AddHierarchicalMusic21Data(_, _, _, _, _, _)
RECURSIVE AddChildrenOf(_, _, _, _, _, _, _)
AddHierarchicalMusic21Data(parentType, parentId, ns, relates, depth, st) ==
    LET toNode == {i \in 1..Len(relates) : relates[i][1].end_node = parentId} IN
    AddChildrenOf(toNode, parentType, parentId, ns, relates, depth, st)

AddChildrenOf(todo, parentType, parentId, ns, relates, depth, st) ==
    IF todo = {} \/ depth = 0 \/ st.err # "" THEN st
    ELSE LET i == CHOOSE a \in todo : \A b \in todo :
                     \/ relates[a][1].id < relates[b][1].id
                     \/ relates[a][1].id = relates[b][1].id /\ a <= b
             r == relates[i][1]
             rest == todo \ {i}
             event == [rel |-> r.id, type |-> r.type, child |-> r.start_node,
                       parent |-> parentId, parentType |-> parentType,
                       before |-> st.lookup]
         IN
         IF ~(EndsWith(r.type, "In" \o parentType) \/ Contains("spannerTo", r.type))
         THEN AddChildrenOf(rest, parentType, parentId, ns, relates, depth, st)
         ELSE IF r.start_node \notin DOMAIN ns
         THEN [st EXCEPT !.err = "KeyError"]
         ELSE LET childType == ns[r.start_node][2].type
                  c == AddMusic21Child(childType, parentType, r, st.lookup)
                  made == c.err = "" /\ c.child
                  st1 == [st EXCEPT
                            !.err = c.err,
                            !.edges = IF made THEN @ \cup {<<r.start_node, parentId>>}
                                      ELSE @,
                            !.lookup = IF made THEN @ \cup {r.start_node} ELSE @,
                            !.events = Append(@, event @@
                                [childType |-> childType,
                                 returned |-> made, copied |-> c.copied,
                                 after |-> IF made THEN st.lookup \cup {r.start_node}
                                           ELSE st.lookup])]
              IN IF ~made
                 THEN AddChildrenOf(rest, parentType, parentId, ns, relates, depth, st1)
                 ELSE AddChildrenOf(rest, parentType, parentId, ns, relates, depth,
                          AddHierarchicalMusic21Data(childType, r.start_node, ns, relates,
                                                     depth - 1, st1))

\* music21Score from line 1265 on: the node map and the relation list are
\* built from the tuples, the Score node is looked up and the tree is filled
BuildScore(result) ==
    LET ns == NodeMap(result)
        rs == RelationTuples(result)
        root == ScoreNodeId(ns)
        tree == AddHierarchicalMusic21Data("Score", root.id[1], ns, rs,
                                           Cardinality(NodeHandles), NoChildren) IN
    IF root.err # ""
    THEN [err |-> root.err, nodes |-> Some(ns), relations |-> Some(rs), score |-> None]
    ELSE [err |-> tree.err, nodes |-> Some(ns), relations |-> Some(rs),
          score |-> IF tree.err # "" THEN None
                    ELSE Some([root |-> root.id[1], edges |-> tree.edges])]

\* Query.music21Score(resultList)
Music21Score(list) ==
    LET h == AddHierarchicalNodes(list)
        b == BuildScore(GetResultProperties(h.results)) IN
    /\ scoreOp' = "music21Score"
    /\ resultList' = list
    /\ IF h.err # ""
       THEN /\ scoreErr' = h.err
            /\ scoreNodes' = None
            /\ relations' = None
            /\ score' = None
       ELSE /\ scoreErr' = b.err
            /\ scoreNodes' = b.nodes
            /\ relations' = b.relations
            /\ score' = b.score
    /\ UNCHANGED notScoreVars

\* lines 1265-1276 of music21Score on their own, run on a list of handles
\* that already holds the hierarchy
Music21ScoreFrom(list) ==
    LET b == BuildScore(GetResultProperties(list)) IN
    /\ scoreOp' = "BuildScore"
    /\ resultList' = list
    /\ scoreErr' = b.err
    /\ scoreNodes' = b.nodes
    /\ relations' = b.relations
    /\ score' = b.score
    /\ UNCHANGED notScoreVars

(* --------------------------- _convertFromString ----------------------- *)
NoneLit == [k |-> "NoneType"]

\* a float, by its sign, its digits and the number of digits after the point
FloatLit(neg, digits, places) == [k |-> "float", neg |-> neg, m |-> digits, d |-> places]

DecimalDigits == "0123456789"

IsDigits(text) ==
    /\ Len(text) > 0
    /\ \A i \in 1..Len(text) : Contains(DecimalDigits, SubSeq(text, i, i))

\* the number a text of digits denotes, 0 for the empty text
RECURSIVE DigitsValue(_)
DigitsValue(text) ==
    IF Len(text) = 0 THEN 0
    ELSE DigitsValue(SubSeq(text, 1, Len(text) - 1)) * 10 +
         (Find(DecimalDigits, SubSeq(text, Len(text), Len(text))) - 1)

\* str.strip() as int() and float() apply it to their argument
RECURSIVE Strip(_)
Strip(text) ==
    IF Len(text) > 0 /\ SubSeq(text, 1, 1) = " "
    THEN Strip(SubSeq(text, 2, Len(text)))
    ELSE IF Len(text) > 0 /\ SubSeq(text, Len(text), Len(text)) = " "
    THEN Strip(SubSeq(text, 1, Len(text) - 1))
    ELSE text

HasSign(text) == Len(text) > 0 /\ SubSeq(text, 1, 1) \in {"+", "-"}
IsNegative(text) == Len(text) > 0 /\ SubSeq(text, 1, 1) = "-"
Unsigned(text) == IF HasSign(text) THEN SubSeq(text, 2, Len(text)) ELSE text

\* int(text): an optional sign and digits, blanks around them allowed
IntOf(text) ==
    LET t == Strip(text)
        body == Unsigned(t) IN
    IF IsDigits(body)
    THEN [err |-> "",
          v |-> IntLit(IF IsNegative(t) THEN 0 - DigitsValue(body) ELSE DigitsValue(body))]
    ELSE [err |-> "ValueError", v |-> NoneLit]

RECURSIVE StripZeros(_)
StripZeros(text) ==
    IF Len(text) > 0 /\ SubSeq(text, Len(text), Len(text)) = "0"
    THEN StripZeros(SubSeq(text, 1, Len(text) - 1))
    ELSE text

\* float(text) of a text that holds a point: an optional sign, digits, the
\* point, digits, with a digit on one side of the point at least
FloatOf(text) ==
    LET t == Strip(text)
        body == Unsigned(t)
        dot == Find(body, ".")
        whole == SubSeq(body, 1, dot - 1)
        frac == SubSeq(body, dot + 1, Len(body))
        places == StripZeros(frac) IN
    IF /\ dot > 0
       /\ Len(whole) = 0 \/ IsDigits(whole)
       /\ Len(frac) = 0 \/ IsDigits(frac)
       /\ Len(whole) + Len(frac) > 0
    THEN [err |-> "",
          v |-> FloatLit(IsNegative(t), DigitsValue(whole \o places), Len(places))]
    ELSE [err |-> "ValueError", v |-> NoneLit]

\* _convertFromString without its branch for 'None'
ConvertFromStringNoneKept(x) ==
    IF ~IsString(x) THEN x
    ELSE IF x.s = "True" THEN BoolLit(TRUE)
    ELSE IF x.s = "False" THEN BoolLit(FALSE)
    ELSE IF Contains(x.s, ".")
    THEN (IF FloatOf(x.s).err = "" THEN FloatOf(x.s).v ELSE x)
    ELSE (IF IntOf(x.s).err = "" THEN IntOf(x.s).v ELSE x)

\* _convertFromString(val)
ConvertFromString(x) ==
    IF ~IsString(x) THEN x
    ELSE IF x.s = "None" THEN NoneLit
    ELSE IF x.s = "True" THEN BoolLit(TRUE)
    ELSE IF x.s = "False" THEN BoolLit(FALSE)
    ELSE IF Contains(x.s, ".")
    THEN (IF FloatOf(x.s).err = "" THEN FloatOf(x.s).v ELSE x)
    ELSE (IF IntOf(x.s).err = "" THEN IntOf(x.s).v ELSE x)

\* the digits of a natural number, padded with zeros to a width
RECURSIVE ZeroPad(_, _)
ZeroPad(text, width) == IF Len(text) < width THEN ZeroPad("0" \o text, width) ELSE text

RECURSIVE Power10(_)
Power10(n) == IF n = 0 THEN 1 ELSE 10 * Power10(n - 1)

\* repr of a float
FloatRepr(x) ==
    (IF x.neg THEN "-" ELSE "") \o ToString(x.m \div Power10(x.d)) \o "." \o
    (IF x.d = 0 THEN "0" ELSE ZeroPad(ToString(x.m % Power10(x.d)), x.d))

\* unicode(val), the text form Database._extractObject stores
UnicodeOf(x) ==
    IF x.k = "NoneType" THEN "None"
    ELSE IF x.k = "float" THEN FloatRepr(x)
    ELSE PyStr(x)

MaxText == 3

\* the characters the texts are made of
TextCharacters == {"-", "0", "1", "7", ".", "a"}

\* the texts _convertFromString is called with
Texts ==
    {Join("", chars) : chars \in UNION {[1..n -> TextCharacters] : n \in 0..MaxText}}
    \cup {"None", "True", "False", "none", "true", " 17", "+7"}

\* the values _convertFromString is called with
ConvertArgs ==
    {StrLit(t) : t \in Texts} \cup {UnicodeLit(t) : t \in {"None", "True", "17", "a"}}
    \cup {NoneLit, BoolLit(TRUE), BoolLit(FALSE), IntLit(0), IntLit(17),
          FloatLit(FALSE, 15, 1)}

\* _convertFromString(x), called on a property value read from the store
ConvertCall(x) ==
    /\ val' = Some(x)
    /\ converted' = Some(ConvertFromString(x))
    /\ UNCHANGED notConvertVars

(* ------------------------------ the server --------------------------- *)
\* the seconds a token is good for
TokenLifetime == 1800

\* the values of hash(ipAddr + pattern)
MaxTokens == 2
TokenValues == 1..MaxTokens

\* req.get('makePreviews', False): what the client sent
PreviewArgs == {BoolLit(FALSE), BoolLit(TRUE), IntLit(9999)}

\* the seconds that pass between two requests
Delays == {600, 1801}
MaxClock == 4000

\* list[i] of Python, whose indices start at 0
Item(list, i) == list[i + 1]

\* a function without one element of its domain:  del d[key]
Del(d, key) == [k \in DOMAIN d \ {key} |-> d[k]]

\* d[key] = value
Put(d, key, value) == [k \in DOMAIN d \cup {key} |-> IF k = key THEN value ELSE d[k]]

\* expireTokens(): the tokens it deletes from a table, and the exception it
\* raises; a dict that shrinks while it is iterated over raises RuntimeError
\* at the next step of the loop, so that one token at most is deleted
ExpireTokens(table, time) ==
    LET old == {t \in DOMAIN table : NumberOf(Item(table[t], 2)) - time > TokenLifetime} IN
    IF old = {}
    THEN {[tokens |-> table, err |-> ""]}
    ELSE {[tokens |-> Del(table, t), err |-> "RuntimeError"] : t \in old}

\* prepareQuery, the handler of /submitquery: with a pattern the token is
\* entered into the tables, and expireTokens is called
PrepareQuery(token, previews, assembled) ==
    LET table == IF assembled
                 THEN Put(tokens, token, <<"pattern", "columns", previews, now>>)
                 ELSE tokens IN
    /\ \E x \in ExpireTokens(table, now) :
          /\ tokens' = x.tokens
          /\ serverErr' = x.err
    /\ rGens' = IF assembled THEN rGens \cup {token} ELSE rGens
    /\ served' = "submitquery"
    /\ UNCHANGED <<now, notServerVars>>

\* expireTokens as the handlers of /getresults and /getimages call it
ExpireTokensCall ==
    /\ \E x \in ExpireTokens(tokens, now) :
          /\ tokens' = x.tokens
          /\ serverErr' = x.err
    /\ served' = "expireTokens"
    /\ UNCHANGED <<rGens, now, notServerVars>>

\* time passes between two requests
Tick(seconds) ==
    /\ now + seconds <= MaxClock
    /\ now' = now + seconds
    /\ served' = "tick"
    /\ UNCHANGED <<tokens, rGens, serverErr, notServerVars>>

(* ------------------------------- ingestion ---------------------------- *)
\* the class names callbacks are added for
Entities == {"Trill", "Expression", "Articulations"}

\* what a callback returns: None, HIDEFROMDATABASE = 1, or 0
ReturnCodes == {None, Some(IntLit(1)), Some(IntLit(0))}

\* Database._m21SuperclassLookup
SuperclassLookup == [Staccato |-> "Articulations"]

\* the objects that are ingested: the name of their class, their `classes`
\* attribute where they have one, and the type of their parent
Music21Objects ==
    {[name |-> "Trill", classes |-> Some(<<"Trill", "Ornament", "Expression">>),
      parent |-> Some("Note")],
     [name |-> "Score", classes |-> Some(<<"Score", "Stream">>), parent |-> None],
     [name |-> "Staccato", classes |-> None, parent |-> Some("Note")],
     [name |-> "NoteEditorial", classes |-> None, parent |-> Some("Note")]}

MaxCallbacks == 3
MaxObjects == 2

RECURSIVE Flatten(_)
Flatten(lists) == IF Len(lists) = 0 THEN <<>> ELSE Head(lists) \o Flatten(Tail(lists))

\* _runCallbacks: the class names whose callbacks are run on an object
Kinds(cbs, obj) ==
    IF obj.classes # None
    THEN SelectSeq(obj.classes[1], LAMBDA x : x \in DOMAIN cbs)
    ELSE IF obj.name \in DOMAIN SuperclassLookup
    THEN <<obj.name, SuperclassLookup[obj.name]>>
    ELSE <<obj.name>>

\* the callbacks in the order in which the two loops of _runCallbacks reach
\* them
CallbackChain(cbs, obj) ==
    LET kinds == SelectSeq(Kinds(cbs, obj), LAMBDA kind : kind \in DOMAIN cbs) IN
    Flatten([i \in 1..Len(kinds) |-> cbs[kinds[i]]])

\* _runCallbacks returning at the first callback whose value is true
RunCallbacksTruthy(cbs, obj) ==
    LET chain == CallbackChain(cbs, obj)
        stops == {i \in 1..Len(chain) : chain[i].rc # None /\ NumberOf(chain[i].rc[1]) # 0}
        last == IF stops = {} THEN Len(chain)
                ELSE CHOOSE i \in stops : \A j \in stops : i <= j IN
    [ran |-> [i \in 1..last |-> chain[i].id],
     rc |-> IF stops = {} THEN None ELSE chain[last].rc]

\* Database._runCallbacks(node): the callbacks run and the value returned
RunCallbacks(cbs, obj) ==
    LET chain == CallbackChain(cbs, obj)
        stops == {i \in 1..Len(chain) : chain[i].rc # None}
        last == IF stops = {} THEN Len(chain)
                ELSE CHOOSE i \in stops : \A j \in stops : i <= j IN
    [ran |-> [i \in 1..last |-> chain[i].id],
     rc |-> IF stops = {} THEN None ELSE chain[last].rc]

\* Database.addPropertyCallback(entity, callback)
AddPropertyCallback(entity, rc) ==
    LET callback == [id |-> registered + 1, rc |-> rc]
        known == IF entity \in DOMAIN callbacks THEN callbacks[entity] ELSE <<>> IN
    /\ callbacks' = Put(callbacks, entity, Append(known, callback))
    /\ registered' = registered + 1
    /\ UNCHANGED <<dbNodes, edges, extracted, ingested, ran, notIngestVars>>

\* Database._addNode(node)
AddNode(obj) ==
    LET run == RunCallbacks(callbacks, obj) IN
    /\ ingested' = Some(obj)
    /\ ran' = run.ran
    /\ IF run.rc # None
       THEN UNCHANGED <<dbNodes, extracted, edges>>
       ELSE /\ dbNodes' = Append(dbNodes, obj.name)
            /\ extracted' = extracted \cup {obj.name}
            /\ edges' = IF obj.parent # None
                        THEN Append(edges, <<obj.name,
                                             obj.name \o "In" \o obj.parent[1],
                                             obj.parent[1]>>)
                        ELSE edges
    /\ UNCHANGED <<callbacks, registered, notIngestVars>>

(* --------------------------- specifications --------------------------- *)
\* the owner stops creating entities once MaxNames names are registered
NamesLeft(k) == Len(usedNames) + k <= MaxNames

\* the names a Relationship(...) call registers when it succeeds
NamesNeeded(relation, startNode, endNode) ==
    IF relation # None THEN 0
    ELSE 1 + (IF startNode = None THEN 1 ELSE 0) + (IF endNode = None THEN 1 ELSE 0)

CallNewNode(names, ids) ==
    \E t \in NodeTypeArgs, nm \in names, id \in ids :
        /\ NamesLeft(1)
        /\ NewNode(t, nm, id)

\* arguments that a call ignores are left at their defaults
CallSetStartNode(names) ==
    \E n \in NodeArgs, t \in NodeTypeArgs, nm \in names :
        /\ n # None => t = None /\ nm = None
        /\ n = None => NamesLeft(1)
        /\ SetStartNode(n, t, nm)

CallSetStartRelationship(names) ==
    \E x \in RelationArgs, t \in RelTypeArgs, s \in NodeArgs, e \in NodeArgs, nm \in names :
        /\ x # None => s = None /\ e = None /\ nm = None
        /\ NamesLeft(NamesNeeded(x, s, e))
        /\ Len(match) < MaxMatch
        /\ SetStartRelationship(x, t, s, e, nm)

CallAddRelationship(names, options) ==
    \E x \in RelationArgs, t \in RelTypeArgs, s \in NodeArgs, e \in NodeArgs,
       nm \in names, o \in options :
        /\ x # None => t = None /\ s = None /\ e = None /\ nm = None /\ o = FALSE
        /\ NamesLeft(NamesNeeded(x, s, e))
        /\ Len(match) < MaxMatch
        /\ AddRelationship(x, t, s, e, nm, o)

\* relationships that leave a given node
CallAddRelationshipFrom(node, options) ==
    \E t \in RelTypeArgs, e \in {None, Some(node)}, o \in options :
        /\ NamesLeft(NamesNeeded(None, Some(node), e))
        /\ Len(match) < MaxMatch
        /\ AddRelationship(None, t, Some(node), e, None, o)

CallAddComparisonFilter(pres, operators, posts) ==
    \E pre \in pres, operator \in operators, post \in posts :
        /\ AddComparisonFilter(pre, operator, post)
        /\ Len(where') <= MaxWhere

CallAddCypherFilter ==
    \E text \in CypherTexts :
        /\ Len(where) < MaxWhere
        /\ AddCypherFilter(text)

CallAddReturns(props) ==
    \E p \in props :
        /\ Len(returns) < MaxReturns
        /\ AddReturns(<<p>>)

CallSetOrder(props) ==
    \E p \in props :
        /\ Len(orders) < MaxReturns
        /\ SetOrder(p)

CallSetLimit ==
    \E n \in LimitArgs : SetLimit(n)

CallAssemblePattern ==
    \E nodeOrder \in Orderings(nodes) :
        /\ runs < MaxRuns
        /\ AssemblePattern(nodeOrder)

CallExecute(rows) ==
    \E nodeOrder \in Orderings(nodes), nRows \in rows :
        /\ runs < MaxRuns
        /\ Execute(nodeOrder, nRows)

CallGetResults(rows) ==
    \E nodeOrder \in Orderings(nodes), nRows \in rows :
        /\ IsUnset(results) => runs < MaxRuns
        /\ GetResults(nodeOrder, nRows)

CallGetMetadata(rows) ==
    \E nodeOrder \in Orderings(nodes), nRows \in rows :
        /\ IsUnset(metadata) => runs < MaxRuns
        /\ GetMetadata(nodeOrder, nRows)

\* the owner builds the structure of a query (entities with generated
\* names, start point, match list) and runs it
Next ==
    \/ CallNewNode({None}, {None})
    \/ CallSetStartNode({None})
    \/ CallSetStartRelationship({None})
    \/ CallAddRelationship({None}, {FALSE})
    \/ CallAssemblePattern
    \/ CallExecute({1})

Spec == Init /\ [][Next]_vars

\* the owner creates entities, naming some of them itself
NextNames ==
    \/ CallNewNode(NameArgs, {None})
    \/ CallSetStartNode(NameArgs)
    \/ CallAddRelationship(NameArgs, {FALSE})

SpecNames == Init /\ [][NextNames]_vars

\* the owner only sets a start node, on nodes with and without an id, and
\* runs the query
NextStart ==
    \/ CallNewNode({None}, NodeIdArgs)
    \/ CallSetStartNode({None})
    \/ CallAssemblePattern
    \/ CallExecute(RowCounts)

SpecStart == Init /\ [][NextStart]_vars

\* the owner sets a start node, executes the query and asks for its results
\* and metadata
NextCache ==
    \/ CallSetStartNode({None})
    \/ CallExecute(RowCounts)
    \/ CallGetResults(RowCounts)
    \/ CallGetMetadata(RowCounts)

SpecCache == Init /\ [][NextCache]_vars

\* one caller uses the four schema listings, one call after the other
NextSchema ==
    \/ \E m \in Listings : SchemaCall(1, m)
    \/ ListRelationshipTypesStep(1)
    \/ ListNodeTypesStep(1)
    \/ ListNodePropertiesStep(1)
    \/ ListRelationshipPropertiesStep(1)

SpecSchema == Init /\ [][NextSchema]_vars

\* two callers use listRelationshipTypes and listNodeTypes at the same time
NextRace ==
    \/ \E t \in Threads, m \in {"listRelationshipTypes", "listNodeTypes"} : SchemaCall(t, m)
    \/ \E t \in Threads : ListRelationshipTypesStep(t)
    \/ \E t \in Threads : ListNodeTypesStep(t)

SpecRace == Init /\ [][NextRace]_vars

\* wipeDatabase runs on a store, each turn of its loops being taken in the end
InitWipe ==
    /\ usedNames = <<>>
    /\ start = None
    /\ match = <<>>
    /\ where = <<>>
    /\ orders = <<>>
    /\ returns = <<>>
    /\ nodes = {}
    /\ limit = None
    /\ pattern = None
    /\ results = None
    /\ metadata = None
    /\ ents = {}
    /\ rels = {}
    /\ op = "Query"
    /\ arg = None
    /\ err = ""
    /\ ret = None
    /\ runs = 0
    /\ streak = 0
    /\ missed = FALSE
    /\ sent = FALSE
    /\ out = None
    /\ SchemaInit
    /\ WipeInit
    /\ ScoreInit
    /\ ConvertInit
    /\ ServerInit
    /\ IngestInit
    /\ LaterInit

NextWipe ==
    \/ WipeRelationships
    \/ WipeNodes

SpecWipe == InitWipe /\ [][NextWipe]_vars /\ WF_vars(NextWipe)

\* the owner sets the start point of the Query again and again and then has
\* the pattern assembled
NextStartPoint ==
    \/ runs = 0 /\ CallSetStartNode(NameArgs)
    \/ /\ runs = 0
       /\ \E x \in RelationArgs, t \in RelTypeArgs, nm \in NameArgs :
             /\ x # None => nm = None
             /\ NamesLeft(NamesNeeded(x, None, None))
             /\ Len(match) < MaxMatch
             /\ SetStartRelationship(x, t, None, None, nm)
    \/ CallAssemblePattern

SpecStartPoint == Init /\ [][NextStartPoint]_vars

\* callbacks are added, then objects are ingested, each object once
NextIngest ==
    \/ /\ registered < MaxCallbacks
       /\ ingested = None
       /\ \E entity \in Entities, rc \in ReturnCodes : AddPropertyCallback(entity, rc)
    \/ /\ Cardinality(extracted) < MaxObjects
       /\ \E obj \in Music21Objects :
             /\ ingested # Some(obj)
             /\ obj.name \notin extracted
             /\ AddNode(obj)

SpecIngest == Init /\ [][NextIngest]_vars

\* queries are submitted to the server and tokens expire as time passes
NextServer ==
    \/ \E token \in TokenValues, previews \in PreviewArgs, assembled \in BOOLEAN :
          PrepareQuery(token, previews, assembled)
    \/ ExpireTokensCall
    \/ \E seconds \in Delays : Tick(seconds)

SpecServer == Init /\ [][NextServer]_vars

\* property values are converted
NextConvert == val = None /\ \E x \in ConvertArgs : ConvertCall(x)

SpecConvert == Init /\ [][NextConvert]_vars

\* music21Score is called on result lists
NextMusic21 == scoreOp = "" /\ \E list \in ResultLists : Music21Score(list)

SpecMusic21 == Init /\ [][NextMusic21]_vars

\* the second half of music21Score is run on lists of handles
NextScore == scoreOp = "" /\ \E list \in ResultLists : Music21ScoreFrom(list)

SpecScore == Init /\ [][NextScore]_vars

\* the state after  q = Query(); a = Node(q, 'Note', name='a');
\* q.setStartNode(a)
HeldNode == NodeInit(<<>>, Some("Note"), Some("a"), None).node

HeldProperties == {Property(HeldNode, p) : p \in PropertyNames}

InitStarted ==
    /\ usedNames = <<"a">>
    /\ start = Some(StartNodeStr(HeldNode))
    /\ match = <<>>
    /\ where = <<>>
    /\ orders = <<>>
    /\ returns = <<>>
    /\ nodes = {}
    /\ limit = None
    /\ pattern = None
    /\ results = None
    /\ metadata = None
    /\ ents = {HeldNode}
    /\ rels = {}
    /\ op = "setStartNode"
    /\ arg = None
    /\ err = ""
    /\ ret = None
    /\ runs = 0
    /\ streak = 0
    /\ missed = FALSE
    /\ sent = FALSE
    /\ out = None
    /\ NonQueryInit

\* the owner adds filters on literals and properties and assembles
NextFilter ==
    \/ CallAddComparisonFilter(OperandArgs, Operators, OperandArgs)
    \/ CallAddCypherFilter
    \/ CallAssemblePattern

SpecFilter == InitStarted /\ [][NextFilter]_vars

\* the owner only adds filters: comparisons of a property or a text with
\* every kind of operand, and raw texts
NextWhere ==
    \/ CallAddComparisonFilter(HeldProperties \cup {UnicodeLit("C")}, Operators, OperandArgs)
    \/ CallAddCypherFilter

SpecWhere == InitStarted /\ [][NextWhere]_vars

\* the owner fills every clause of the query and assembles
NextClauses ==
    \/ CallAddRelationshipFrom(HeldNode, OptionalArgs)
    \/ CallAddComparisonFilter(HeldProperties, {"="}, {IntLit(1)})
    \/ CallAddCypherFilter
    \/ CallAddReturns(HeldProperties)
    \/ CallSetOrder(HeldProperties)
    \/ CallSetLimit
    \/ CallAssemblePattern

SpecClauses == InitStarted /\ [][NextClauses]_vars

(* ------------------------------ properties ----------------------------- *)
\* C1: the names registered in Query._usedNames are pairwise distinct, and a
\* Node or Relationship constructed with a caller-supplied name that is
\* already registered fails with ValueError and registers nothing: a call
\* that returned has registered its name, a call that raised ValueError was
\* given a registered name.
C1_NamesUnique ==
    /\ \A i, j \in 1..Len(usedNames) : i # j => usedNames[i] # usedNames[j]
    /\ (op \in EntityCalls /\ arg # None /\ err = "") => arg[1] \in Range(usedNames)
    /\ (op \in EntityCalls /\ err # "") =>
            err = "ValueError" /\ arg # None /\ arg[1] \in Range(usedNames)

\* a call with the name "a" has been refused because "a" was registered
C1_Witness ==
    /\ op \in EntityCalls
    /\ err = "ValueError"
    /\ arg = Some("a")
    /\ "a" \in Range(usedNames)

\* C2: assembling (directly or through execute) a Query that has no start
\* point fails - the code raises SystemExit - and hands back no pattern text;
\* assembling a Query that has a start point succeeds and hands back the
\* text, in particular after an earlier assembly failed.
C2_MissingStart ==
    op \in Runs =>
        /\ start = None => err = "SystemExit" /\ ret = None
        /\ start # None => err = "" /\ ret # None

\* an assembly succeeded on a Query on which an earlier one had failed
C2_Witness == missed /\ op \in Runs /\ err = "" /\ ret # None

\* the start clauses setStartNode can have written for the identifier id
StartNodeClauses(id) ==
    {"start " \o id \o "=node(7)\n",
     "start " \o id \o "=node:node_auto_index(\"type:Note\")\n",
     "start " \o id \o "=node:node_auto_index(\"type:*\")\n"}

\* setStartNode is the only builder call that has been made
OnlyStartNode ==
    /\ start # None
    /\ match = <<>>
    /\ where = <<>>
    /\ returns = <<>>
    /\ orders = <<>>
    /\ limit = None

\* C3: on a Query whose only builder call was setStartNode, assembly succeeds
\* and the pattern is exactly the start clause followed by "return *", with
\* no match and no where text; execute then reports one metadata column,
\* named after the start node, and rows of one cell.
C3_StartOnly ==
    (op \in Runs /\ OnlyStartNode) =>
        LET id == StartIdentifier(start[1]) IN
        /\ err = ""
        /\ start[1] \in StartNodeClauses(id)
        /\ ret = Some(start[1] \o "return *\n")
        /\ ~Contains(ret[1], "match")
        /\ ~Contains(ret[1], "where")
        /\ op = "execute" =>
            /\ pattern = ret
            /\ metadata = Some(<<id>>)
            /\ \A i \in 1..Len(results[1]) : Len(results[1][i]) = 1

\* a Query whose start node was given by id has been executed and answered
\* with rows
C3_Witness ==
    /\ op = "execute"
    /\ err = ""
    /\ OnlyStartNode
    /\ Contains(start[1], "=node(7)")
    /\ Len(results[1]) > 0

\* the text of the where clause of a pattern ("" when it has none)
WhereClause(text) ==
    IF Contains(text, "where\n")
    THEN SubSeq(text, Find(text, "where\n"), Find(text, "return ") - 1)
    ELSE ""

\* the nodes at the ends of the relationships of the match list
MatchNodes == UNION {{match[i].start, match[i].end} : i \in 1..Len(match)}

C5_AssembleTwice ==
    [][(op \in Runs /\ err = "" /\ op' \in Runs) =>
            (err' = "" /\ ret' = ret /\ where' = where)]_vars

\* a Query with auto-generated type filters has been assembled twice in a row
C5_Witness == streak >= 2 /\ where # <<>> /\ op = "_assemblePattern"

\* C6: _assemblePattern and execute leave the start point, the match list,
\* the where list, the returns, the orders, the limit and the node set of
\* the Query as they were, whether the assembly succeeds or fails.
C6_ReadOnly == [][op' \in Runs => UNCHANGED queryVars]_vars

\* the i-th clause keyword of an assembled pattern occurs, and behind the
\* keywords listed before it
ClauseKeywords == <<"start ", "match\n", "where\n", "return ", "order by", "limit ">>

InClauseOrder(text) ==
    \A i, j \in 1..Len(ClauseKeywords) :
        (i < j /\ Contains(text, ClauseKeywords[i]) /\ Contains(text, ClauseKeywords[j]))
            => Find(text, ClauseKeywords[i]) < Find(text, ClauseKeywords[j])

\* C7: in an assembled pattern the clauses stand in the order start, match,
\* where, return, order-by, limit; the return clause is always there
\* ("return *" without returns, otherwise the returns in the order added); a
\* match, where, order-by or limit clause is there exactly if a relationship,
\* a filter, a sort key or a limit has been set.
C7_ClauseOrder ==
    (op \in Runs /\ err = "") =>
        LET text == ret[1] IN
        /\ Find(text, "start ") = 1
        /\ InClauseOrder(text)
        /\ IF returns = <<>>
           THEN Contains(text, "return *\n")
           ELSE Contains(text, "return " \o
                    Join(", ", [i \in 1..Len(returns) |-> returns[i].parent.name \o "."
                                                          \o returns[i].name]) \o "\n")
        /\ Contains(text, "match\n") <=> match # <<>>
        /\ Contains(text, "where\n") <=> where # <<>>
        /\ Contains(text, "order by") <=> orders # <<>>
        /\ Contains(text, "limit ") <=> limit # None

\* the rendering of an operand with string and boolean literals in double
\* quotes and everything else bare
QuotedOperand(x) ==
    IF x.k \in {"str", "unicode"} THEN "\"" \o x.s \o "\""
    ELSE IF x.k = "bool" THEN "\"" \o (IF x.b THEN "True" ELSE "False") \o "\""
    ELSE IF x.k = "int" THEN ToString(x.n)
    ELSE x.parent.name \o "." \o x.name

\* C8: every Filter of the where list is rendered in the assembled pattern
\* with its string and boolean literal operands inside double quotes and its
\* other operands bare (a number as its digits, a Property as
\* <parentName>.<propertyName>).
C8_OperandQuoting ==
    (op \in Runs /\ err = "") =>
        \A i \in 1..Len(where) :
            where[i].k = "Filter" =>
                Contains(ret[1], (IF i = 1 THEN "where\n" ELSE "\nand ")
                                    \o QuotedOperand(where[i].pre) \o " " \o where[i].operator
                                    \o " " \o QuotedOperand(where[i].post) \o "\n")

\* C9: a relationship added to the Query twice is held once by the match
\* list: no two entries of the match list are equal.
C9_MatchOnce ==
    \A i, j \in 1..Len(match) : i # j => match[i] # match[j]

\* two Filters with the same pre, operator and post
SameFilter(f, g) ==
    /\ f.k = "Filter"
    /\ g.k = "Filter"
    /\ f.pre = g.pre
    /\ f.operator = g.operator
    /\ f.post = g.post

\* C10: the where list never holds two structurally equal Filters, and an
\* addComparisonFilter call either leaves the where list as it was or appends
\* one Filter that is equal to none already there.
C10_NoEqualFilters ==
    /\ [](\A i, j \in 1..Len(where) : i # j => ~SameFilter(where[i], where[j]))
    /\ [][op' = "addComparisonFilter" =>
            \/ where' = where
            \/ /\ Len(where') = Len(where) + 1
               /\ SubSeq(where', 1, Len(where)) = where
               /\ \A i \in 1..Len(where) : ~SameFilter(where[i], where'[Len(where')])]_vars

\* the comparison filter just added was equal to an earlier entry of the
\* where list, which holds that entry and a later, different Filter
C10_Witness ==
    /\ op = "addComparisonFilter"
    /\ Len(where) >= 2
    /\ SameFilter(where[1], arg[1])
    /\ where[Len(where)].k = "Filter"
    /\ ~SameFilter(where[Len(where)], arg[1])

\* C11: getResults and getMetadata send the query to the store only while no
\* execute has completed on the Query (results and metadata are None exactly
\* then); afterwards they return the results and metadata cached by the most
\* recent execute without a store round-trip and without changing them, also
\* when the cached result has zero rows.
C11_CachedResults ==
    /\ [](results = None <=> pattern = None)
    /\ [](metadata = None <=> pattern = None)
    /\ [][op' = "getResults" =>
            IF pattern = None
            THEN err' = "" => (sent' /\ results' # None /\ out' = results')
            ELSE /\ ~sent'
                 /\ err' = ""
                 /\ out' = results
                 /\ UNCHANGED <<pattern, results, metadata>>]_vars
    /\ [][op' = "getMetadata" =>
            IF pattern = None
            THEN err' = "" => (sent' /\ metadata' # None /\ out' = metadata')
            ELSE /\ ~sent'
                 /\ err' = ""
                 /\ out' = metadata
                 /\ UNCHANGED <<pattern, results, metadata>>]_vars

\* getResults has returned a cached result of zero rows without a round-trip
C11_Witness ==
    /\ op = "getResults"
    /\ ~sent
    /\ out = Some(<<>>)
    /\ results = Some(<<>>)

\* caller t has come back from a call
Returned(t) == th[t].stack = <<>> /\ th[t].last # ""

\* C12: a call of a schema listing that is made after a call of the same
\* listing has completed returns what that first call returned and makes no
\* round-trip to the store, whatever the order in which the four listings
\* are called.
C12_CachedListings ==
    \A t \in Threads :
        (Returned(t) /\ th[t].again) =>
            /\ th[t].err = ""
            /\ th[t].out = first[th[t].last]
            /\ trips = th[t].t0

\* every listing has been called, and listRelationshipProperties has then
\* been called again and answered
C12_Witness ==
    /\ Returned(1)
    /\ th[1].again
    /\ th[1].last = "listRelationshipProperties"
    /\ th[1].out # None
    /\ trips > 0
    /\ \A m \in Listings : first[m] # None

\* C13: when the schema listings are called concurrently the store is asked
\* for the schema once only (one request for the relationship types and one
\* query per type), and every listing handed to a caller is the complete one.
C13_SingleFlight ==
    /\ trips <= 1 + Cardinality(StoreRelationshipTypes)
    /\ \A t \in Threads :
          (Returned(t) /\ th[t].err = "") =>
              /\ th[t].last = "listRelationshipTypes" =>
                    /\ Len(th[t].out[1]) = Cardinality(StoreRelationships)
                    /\ Range(th[t].out[1]) = StoreRelationships
              /\ th[t].last = "listNodeTypes" => th[t].out[1] = StoreNodeTypes

\* C14: wipeDatabase terminates on every store; when it has returned the
\* store holds no relationship and the reference node only; no node is
\* deleted while the store holds a relationship.
C14_WipeTerminates ==
    /\ <>(wpc = "done")
    /\ [](wpc = "done" => RelationshipCount = 0 /\ NodeCount = 1)
    /\ [][storeNodes' # storeNodes => RelationshipCount = 0]_vars

\* the handles of a result list that are nodes of the given type
HandlesOfType(list, type) ==
    {list[i].id : i \in {j \in 1..Len(list) : IsNode(list[j]) /\ list[j].type = type}}

\* C15: music21Score on a result list that holds a Note handle returns a tree
\* with one root, the Score, in which the note hangs below its Measure, the
\* Measure below its Part and the Part below the Score.
C15_Ancestors ==
    (scoreOp = "music21Score" /\ 5 \in HandlesOfType(resultList, "Note")) =>
        /\ scoreErr = ""
        /\ score # None
        /\ score[1].root = 1
        /\ {<<5, 4>>, <<4, 3>>, <<3, 1>>} \subseteq score[1].edges

TextIntegers == -99..999

\* the text of a number: digits, with a sign, a point or blanks around them
IsNumeric(text) ==
    LET body == Unsigned(Strip(text))
        digits == {i \in 1..Len(body) : Contains(DecimalDigits, SubSeq(body, i, i))}
        points == {i \in 1..Len(body) : SubSeq(body, i, i) = "."} IN
    /\ digits # {}
    /\ Cardinality(points) <= 1
    /\ digits \cup points = 1..Len(body)

\* C17: _convertFromString maps 'None' to null, 'True' and 'False' to the
\* booleans and the decimal text of an integer to the integer, and the text of
\* the value it returns for these is the string it was given; a string that is
\* none of these and not numeric is returned unchanged, and so is a value
\* that is not a string.
C17_Convert ==
    val # None =>
        LET x == val[1]
            y == converted[1] IN
        /\ ~IsString(x) => y = x
        /\ IsString(x) =>
            /\ x.s = "None" => y = NoneLit /\ UnicodeOf(y) = x.s
            /\ x.s = "True" => y = BoolLit(TRUE) /\ UnicodeOf(y) = x.s
            /\ x.s = "False" => y = BoolLit(FALSE) /\ UnicodeOf(y) = x.s
            /\ \A n \in TextIntegers :
                  x.s = ToString(n) => y = IntLit(n) /\ UnicodeOf(y) = x.s
            /\ (x.s \notin {"None", "True", "False"} /\ ~IsNumeric(x.s)) => y = x

C17_Witness ==
    /\ val = Some(StrLit("-17"))
    /\ converted = Some(IntLit(0 - 17))
    /\ UnicodeOf(converted[1]) = "-17"

\* the seconds since a token of a table was submitted
Age(table, token, time) == time - Item(table[token], 3)

\* C18: whenever expireTokens has run, no token that was submitted more than
\* 1800 seconds ago is left in the token table, and every token submitted
\* less than 1800 seconds ago is still in it.
C18_TokensExpire ==
    [][served' \in {"submitquery", "expireTokens"} =>
          /\ \A t \in DOMAIN tokens' : Age(tokens', t, now') <= TokenLifetime
          /\ \A t \in DOMAIN tokens :
                Age(tokens, t, now) < TokenLifetime => t \in DOMAIN tokens']_vars

\* the callbacks added for the class names of an object
CallbacksOf(obj) ==
    LET names == IF obj.classes # None THEN Range(obj.classes[1])
                 ELSE IF obj.name \in DOMAIN SuperclassLookup
                 THEN {obj.name, SuperclassLookup[obj.name]}
                 ELSE {obj.name} IN
    UNION {Range(callbacks[kind]) : kind \in names \cap DOMAIN callbacks}

\* the callbacks of an object in the order in which they were added
RECURSIVE ByRegistration(_)
ByRegistration(cbs) ==
    IF cbs = {} THEN <<>>
    ELSE LET c == CHOOSE x \in cbs : \A y \in cbs : x.id <= y.id IN
         <<c>> \o ByRegistration(cbs \ {c})

\* the callbacks of an object class name by class name, in the order of the
\* object's class names, and in the order they were added within one name
ByClass(obj) ==
    LET names == IF obj.classes # None THEN obj.classes[1]
                 ELSE IF obj.name \in DOMAIN SuperclassLookup
                 THEN <<obj.name, SuperclassLookup[obj.name]>>
                 ELSE <<obj.name>> IN
    Flatten([i \in 1..Len(names) |->
                IF names[i] \in DOMAIN callbacks THEN callbacks[names[i]] ELSE <<>>])

\* the chain is run up to its first callback that returns a value; the object
\* is hidden when there is one, and added with its edge when there is none
RunInOrder(chain, obj) ==
    LET stops == {i \in 1..Len(chain) : chain[i].rc # None} IN
    /\ Len(ran) <= Len(chain)
    /\ \A i \in 1..Len(ran) : ran[i] = chain[i].id
    /\ \A i \in 1..Len(ran) - 1 : i \notin stops
    /\ stops # {} =>
          /\ Len(ran) \in stops
          /\ obj.name \notin Range(dbNodes)
          /\ obj.name \notin extracted
          /\ \A i \in 1..Len(edges) : edges[i][1] # obj.name
    /\ stops = {} =>
          /\ Len(ran) = Len(chain)
          /\ dbNodes # <<>> /\ dbNodes[Len(dbNodes)] = obj.name
          /\ obj.name \in extracted
          /\ obj.parent # None =>
                /\ edges # <<>>
                /\ edges[Len(edges)] =
                      <<obj.name, obj.name \o "In" \o obj.parent[1], obj.parent[1]>>

\* C19 as stated: when an object is ingested, the callbacks added for its
\* classes are run in the order in which they were added, up to the first that returns a
\* value; the object is then left out of the node list, its properties are
\* not extracted and it gets no edge to its parent; with no such callback
\* it is added with the edge to its parent.
C19_RegistrationOrder ==
    [][ingested' # ingested =>
          RunInOrder(ByRegistration(CallbacksOf(ingested[1])), ingested[1])']_vars

\* C19: when an object is ingested, its callbacks are run class name by class
\* name in the order of the object's class names, and in the order in which they were
\* added within one class name, up to the first that returns a value; the
\* object is then left out of the node list, its properties are not
\* extracted and it gets no edge to its parent; with no such callback it is
\* added with the edge to its parent.
C19_ClassOrder ==
    [][ingested' # ingested => RunInOrder(ByClass(ingested[1]), ingested[1])']_vars

C19_Witness ==
    /\ ingested # None
    /\ ingested[1].name = "Trill"
    /\ ran = <<2, 1>>
    /\ "Trill" \notin Range(dbNodes)

\* the number of start clauses in a text
StartClauseCount(text) ==
    Cardinality({i \in 1..(Len(text) - 5) : SubSeq(text, i, i + 5) = "start "})

StartsWith(text, prefix) ==
    Len(prefix) <= Len(text) /\ SubSeq(text, 1, Len(prefix)) = prefix

StartCalls == {"setStartNode", "setStartRelationship"}

\* C20: a call of setStartNode or setStartRelationship leaves the Query with
\* one start clause, which names the node or relationship of that call; no
\* other call changes the start point; an assembled pattern begins with the
\* start point of the Query and holds no other start clause.
C20_OneStart ==
    [][/\ (op' = "setStartNode" /\ err' = "") =>
             \A n \in NodeArgs, t \in NodeTypeArgs :
                 (/\ n # None => t = None /\ arg' = None
                  /\ start' = IF n # None THEN Some(StartNodeStr(n[1])) ELSE start'
                  /\ SetStartNode(n, t, arg')) =>
                     LET e == IF n # None THEN n[1] ELSE CHOOSE x \in ents' \ ents : TRUE IN
                     /\ start' # None
                     /\ StartClauseCount(start'[1]) = 1
                     /\ StartsWith(start'[1], "start " \o e.name \o "=node")
       /\ (op' = "setStartRelationship" /\ err' = "") =>
             \A x \in RelationArgs, t \in RelTypeArgs, s \in NodeArgs, e \in NodeArgs :
                 (/\ x # None => s = None /\ e = None /\ arg' = None
                  /\ start' = IF x # None THEN Some(StartRelationshipStr(x[1])) ELSE start'
                  /\ SetStartRelationship(x, t, s, e, arg')) =>
                     LET r == IF x # None THEN x[1] ELSE CHOOSE y \in rels' \ rels : TRUE IN
                     /\ start' # None
                     /\ StartClauseCount(start'[1]) = 1
                     /\ StartsWith(start'[1], "start " \o r.name \o "=relationship")
       /\ (op' \notin StartCalls \/ err' # "") => start' = start
       /\ (op' = "_assemblePattern" /\ err' = "") =>
             /\ ret' # None
             /\ StartsWith(ret'[1], start'[1])
             /\ StartClauseCount(ret'[1]) = 1]_vars

C20_Witness ==
    /\ op = "_assemblePattern"
    /\ err = ""
    /\ match # <<>>
    /\ StartsWith(ret[1], "start " \o match[1].start.name \o "=node")
    /\ StartClauseCount(ret[1]) = 1

\* ---------------------------------------------------------------------------
\* _signedModulo (lines 126-134), the modulo of addCrossPartRelationships that
\* keeps the sign of its argument

\* the largest absolute value and the largest modulus the function is called with
MaxVal == 30
MaxMod == 12

\* abs()
Abs(x) == IF x < 0 THEN -x ELSE x

\* a loop test that also takes a value whose size equals the modulus
LoopsInclusive(v, m) == Abs(v) >= m

\* the test of the loop: `while abs(val) > mod`
Loops(v, m) == Abs(v) > m

\* the call up to the loop: 0 is returned at once, otherwise
\* `sign = val / abs(val)`, the integer division of Python 2
SignedModuloCall(v, m) ==
    /\ smPc = "idle"
    /\ smArg' = <<v, m>>
    /\ smVal' = Some(v)
    /\ IF v = 0
         THEN smSign' = None /\ smRet' = Some(0) /\ smPc' = "done"
         ELSE smSign' = Some(v \div Abs(v)) /\ smRet' = None /\ smPc' = "while"
    /\ UNCHANGED <<queryState, earlyVars, propertyVars, voiceVars, materialVars,
                   hierarchyVars>>

\* one turn of the loop: `val -= mod * sign`
SignedModuloLoop ==
    /\ smPc = "while"
    /\ Loops(smVal[1], smArg[2])
    /\ smVal' = Some(smVal[1] - smArg[2] * smSign[1])
    /\ UNCHANGED <<smArg, smSign, smPc, smRet>>
    /\ UNCHANGED <<queryState, earlyVars, propertyVars, voiceVars, materialVars,
                   hierarchyVars>>

\* the loop ends: `return val`
SignedModuloReturn ==
    /\ smPc = "while"
    /\ ~Loops(smVal[1], smArg[2])
    /\ smRet' = smVal
    /\ smPc' = "done"
    /\ UNCHANGED <<smArg, smVal, smSign>>
    /\ UNCHANGED <<queryState, earlyVars, propertyVars, voiceVars, materialVars,
                   hierarchyVars>>

NextModulo ==
    \/ \E v \in -MaxVal..MaxVal : \E m \in 1..MaxMod : SignedModuloCall(v, m)
    \/ SignedModuloLoop
    \/ SignedModuloReturn

SpecModulo == Init /\ [][NextModulo]_vars /\ WF_vars(NextModulo)

\* what the call returned for a value and a modulus
SignedModuloResult(v, m, r) ==
    /\ v = 0 => r = 0
    /\ v # 0 =>
        /\ r # 0
        /\ (r > 0) <=> (v > 0)
        /\ (v - r) % m = 0
        /\ Abs(r) <= m
        /\ (Abs(r) = m) <=> (v % m = 0)

\* C30: for an integer val and a positive integer mod, _signedModulo(val, mod)
\* terminates, and it returns 0 for 0 and otherwise a value of the sign of val
\* that is congruent to val modulo mod and no larger in size than mod, of
\* size mod exactly when val is a multiple of mod
C30_SignedModulo ==
    /\ [](smPc = "done" => SignedModuloResult(smArg[1], smArg[2], smRet[1]))
    /\ [](smPc = "while" => <>(smPc = "done"))

\* an exact octave down is stored as -12
C30_Witness == smPc = "done" /\ smArg = <<-24, 12>> /\ smRet = Some(-12)

\* ---------------------------------------------------------------------------
\* Name collisions

\* C27: a call of the builder that fails with a name collision leaves the
\* name registry, the match list and the node set of the Query as they were:
\* a Relationship made under a name in use, whose start or end node was
\* left out, registers no name for the nodes it made for them
C27_CollisionLeavesNoTrace ==
    [][err' = "ValueError" =>
          /\ usedNames' = usedNames
          /\ match' = match
          /\ nodes' = nodes]_vars

\* ---------------------------------------------------------------------------
\* Database.listRelationshipProperties (lines 381-411) with the Query it runs

\* the relationships and nodes of the store the listing samples, with the
\* keys of their properties: NoteToNote carries 'interval' (line 528),
\* NoteSimultaneousWithNote carries 'harmonicInterval' and 'sameOffset'
\* (lines 625-629), and every relationship carries 'type' (line 757)
SampledNodes ==
    {[kind |-> "node", id |-> 4, type |-> "Measure", keys |-> {"type", "offset"}],
     [kind |-> "node", id |-> 5, type |-> "Note", keys |-> {"type", "pitch"}],
     [kind |-> "node", id |-> 6, type |-> "Note", keys |-> {"type", "pitch"}]}

SampledRelationships ==
    {[kind |-> "relationship", id |-> 1, type |-> "NoteInMeasure", start |-> 5,
      end |-> 4, keys |-> {"type"}],
     [kind |-> "relationship", id |-> 4, type |-> "NoteToNote", start |-> 5,
      end |-> 6, keys |-> {"type", "interval"}],
     [kind |-> "relationship", id |-> 5, type |-> "NoteSimultaneousWithNote",
      start |-> 5, end |-> 6, keys |-> {"type", "harmonicInterval", "sameOffset"}]}

SampledNode(id) == CHOOSE n \in SampledNodes : n.id = id

\* the roles an identifier has in the part of the match that names it
Roles == {"relationship", "start", "end"}

\* the values the store binds a column of 'return *' to, the column being
\* named by the k-th part of the match as its relationship, its start node
\* or its end node: the relationships of the type of that part, or their
\* start or end nodes
FirstCells(k, role, matchList) ==
    LET bound == {r \in SampledRelationships : r.type = matchList[k].relationType}
    IN CASE role = "relationship" -> bound
         [] role = "start" -> {SampledNode(r.start) : r \in bound}
         [] role = "end" -> {SampledNode(r.end) : r \in bound}

\* lines 397-404: the types are collected in a set, the list is made and so
\* is the one Query q of the loop
ListRelationshipPropertiesCall ==
    /\ lrpPc = "idle"
    /\ lrpPc' = "loop"
    /\ lrpTodo' = {r.type : r \in SampledRelationships}
    /\ lrpProperties' = Some(<<>>)
    /\ UNCHANGED <<lrpUsed, lrpStart, lrpMatch, lrpType, lrpSample>>
    /\ UNCHANGED <<queryState, earlyVars, moduloVars, voiceVars, materialVars,
                   hierarchyVars>>

\* the state of q after q.setStartRelationship(relationType=rType), line 405:
\* a new Relationship between two new nodes is appended to the match that
\* the earlier turns have filled
TurnQuery(rType) ==
    LET x == RelationshipInit(lrpUsed, Some(rType), None, None, None, FALSE)
        added == IF x.rel \notin Range(lrpMatch)
                 THEN AppendRelationship(lrpMatch, {}, x.rel)
                 ELSE [match |-> lrpMatch, nodes |-> {}]
    IN [used |-> x.used, match |-> added.match, start |-> StartRelationshipStr(x.rel)]

\* one turn of the loop, lines 404-410, when the store answers: with
\* 'return *' the rows have a column per identifier, in an order that is the
\* store's, and relate[0] is the cell of the column that comes first
ListRelationshipPropertiesTurn(rType) ==
    /\ lrpPc = "loop"
    /\ rType \in lrpTodo
    /\ \E q \in {TurnQuery(rType)} :
       \E k \in 1..Len(q.match) : \E role \in Roles :
       \E cells \in {FirstCells(k, role, q.match)} :
       \E order \in Orderings(UNION {c.keys : c \in cells} \ {"type"}) :
         /\ lrpUsed' = q.used
         /\ lrpMatch' = q.match
         /\ lrpStart' = Some(q.start)
         /\ lrpSample' = cells
         /\ lrpProperties' =
                Some(lrpProperties[1] \o [i \in 1..Len(order) |-> <<rType, order[i]>>])
    /\ lrpType' = Some(rType)
    /\ lrpTodo' = lrpTodo \ {rType}
    /\ UNCHANGED lrpPc
    /\ UNCHANGED <<queryState, earlyVars, moduloVars, voiceVars, materialVars,
                   hierarchyVars>>

\* one turn of the loop when the store refuses the pattern because parts of
\* the match are not connected to the start: q.execute() raises
ListRelationshipPropertiesRaise(rType) ==
    /\ lrpPc = "loop"
    /\ rType \in lrpTodo
    /\ lrpMatch # <<>>
    /\ \E q \in {TurnQuery(rType)} :
         /\ lrpUsed' = q.used
         /\ lrpMatch' = q.match
         /\ lrpStart' = Some(q.start)
    /\ lrpPc' = "raised"
    /\ lrpType' = Some(rType)
    /\ lrpSample' = {}
    /\ UNCHANGED <<lrpTodo, lrpProperties>>
    /\ UNCHANGED <<queryState, earlyVars, moduloVars, voiceVars, materialVars,
                   hierarchyVars>>

\* line 411: the loop is over
ListRelationshipPropertiesReturn ==
    /\ lrpPc = "loop"
    /\ lrpTodo = {}
    /\ lrpPc' = "done"
    /\ UNCHANGED <<lrpTodo, lrpUsed, lrpStart, lrpMatch, lrpType, lrpSample,
                   lrpProperties>>
    /\ UNCHANGED <<queryState, earlyVars, moduloVars, voiceVars, materialVars,
                   hierarchyVars>>

NextProperties ==
    \/ ListRelationshipPropertiesCall
    \/ \E rType \in lrpTodo : ListRelationshipPropertiesTurn(rType)
    \/ \E rType \in lrpTodo : ListRelationshipPropertiesRaise(rType)
    \/ ListRelationshipPropertiesReturn

SpecProperties == Init /\ [][NextProperties]_vars

\* C26: every pair (T, p) the listing of relationship properties holds is
\* sound, p being a key other than 'type' of a sampled relationship of type
\* T, and the rows the listing reads for T hold relationships of type T
\* only, whatever types the loop took before
C26_SoundProperties ==
    /\ lrpProperties # None =>
         \A pair \in Range(lrpProperties[1]) :
            /\ pair[2] # "type"
            /\ \E r \in SampledRelationships : r.type = pair[1] /\ pair[2] \in r.keys
    /\ lrpType # None =>
         \A c \in lrpSample : c \in SampledRelationships /\ c.type = lrpType[1]

\* ---------------------------------------------------------------------------
\* The Part and Note callbacks of ingestion: addPartNumber (lines 470-479) and
\* addNoteVoiceleading (lines 515-537), run by _extractNodes as it walks a
\* Score part by part, measure by measure and note by note

\* the number of Parts, of Measures in a Part and of notes in a Score
MaxParts == 2
MaxMeasures == 2
MaxNotes == 3

\* offsets and durations are counted in eighth notes, so that
\* `noteObj.offset % 1 == 0` is the test for an even offset
Beat == 2

\* the bar duration (a bar of two quarters), the voice numbers and the midi
\* number of the notes of the scores
BarDurations == {4}
Voices == {1, 2}
Pitches == {60}

Relationships == {"NoteToNote", "NoteToNoteByBeat"}

\* a history that no Part ever empties
KeptHistory(h) ==
    IF h = None THEN Some([r \in Relationships |-> [v \in Voices |-> None]]) ELSE h

\* line 476: `db._extractState['history'] = { 'NoteToNote': {}, 'NoteToNoteByBeat': {} }`
NewHistory(h) == Some([r \in Relationships |-> [v \in Voices |-> None]])

\* the Part callback addPartNumber: the history starts anew
AddPartNumber ==
    /\ vlPart < MaxParts
    /\ vlPart' = vlPart + 1
    /\ history' = NewHistory(history)
    /\ vlMeasure' = None
    /\ UNCHANGED <<vlNotes, vlEdges>>
    /\ UNCHANGED <<queryState, earlyVars, moduloVars, propertyVars, materialVars,
                   hierarchyVars>>

\* the extraction enters the next Measure of the Part, which begins where
\* the one before it ended
EnterMeasure(barDuration) ==
    /\ vlPart > 0
    /\ IF vlMeasure = None
         THEN vlMeasure' = Some([number |-> 1, offset |-> 0, barDuration |-> barDuration,
                                 last |-> 0])
         ELSE /\ vlMeasure[1].number < MaxMeasures
              /\ vlMeasure' = Some([number |-> vlMeasure[1].number + 1,
                                    offset |-> vlMeasure[1].offset + vlMeasure[1].barDuration,
                                    barDuration |-> barDuration, last |-> 0])
    /\ UNCHANGED <<history, vlNotes, vlEdges, vlPart>>
    /\ UNCHANGED <<queryState, earlyVars, moduloVars, propertyVars, materialVars,
                   hierarchyVars>>

\* addVoiceleading (lines 516-529) for one relationship: the history after it
\* and the edges it adds, noteObj being the note of index idx
AddVoiceleading(h, relationship, noteObj, idx, offset) ==
    IF noteObj.isRest
    THEN [history |-> h, edges |-> {}]
    ELSE LET prev == h[relationship][noteObj.voice]
             voiceleadingHistory == prev # None
         IN [history |-> [h EXCEPT ![relationship][noteObj.voice] = Some(<<idx, offset>>)],
             edges |-> IF voiceleadingHistory /\ offset - prev[1][2] <= noteObj.barDuration
                       THEN {[type |-> relationship, start |-> prev[1][1], end |-> idx,
                              interval |-> noteObj.midi - vlNotes[prev[1][1]].midi]}
                       ELSE {}]

\* the Note callback addNoteVoiceleading on the next note of the Measure; a
\* note without a voice is given voice 1
AddNoteVoiceleading(noteOffset, voice, isRest, midi) ==
    /\ vlMeasure # None
    /\ Len(vlNotes) < MaxNotes
    /\ noteOffset >= vlMeasure[1].last
    /\ noteOffset < vlMeasure[1].barDuration
    /\ LET offset == vlMeasure[1].offset + noteOffset
           idx == Len(vlNotes) + 1
           noteObj == [part |-> vlPart, measure |-> vlMeasure[1].number,
                       barDuration |-> vlMeasure[1].barDuration,
                       voice |-> IF voice = None THEN 1 ELSE voice[1],
                       isRest |-> isRest, midi |-> midi, offset |-> offset]
           one == AddVoiceleading(history[1], "NoteToNote", noteObj, idx, offset)
           two == IF noteOffset % Beat = 0
                  THEN AddVoiceleading(one.history, "NoteToNoteByBeat", noteObj, idx, offset)
                  ELSE [history |-> one.history, edges |-> {}] IN
       /\ vlNotes' = Append(vlNotes, noteObj)
       /\ history' = Some(two.history)
       /\ vlEdges' = vlEdges \cup one.edges \cup two.edges
    /\ vlMeasure' = Some([vlMeasure[1] EXCEPT !.last = noteOffset])
    /\ UNCHANGED vlPart
    /\ UNCHANGED <<queryState, earlyVars, moduloVars, propertyVars, materialVars,
                   hierarchyVars>>

NextVoiceleading ==
    \/ AddPartNumber
    \/ \E barDuration \in BarDurations : EnterMeasure(barDuration)
    \/ \E noteOffset \in 0..3 : \E voice \in {None} \cup {Some(v) : v \in Voices} :
       \E isRest \in BOOLEAN : \E midi \in Pitches :
         AddNoteVoiceleading(noteOffset, voice, isRest, midi)

SpecVoiceleading == Init /\ [][NextVoiceleading]_vars

\* C29: a NoteToNote edge goes from a note p to a note n only if neither is a
\* rest, both are of the same Part and have the same voice, p is the last
\* note before n that is not a rest and has that voice in that Part, and n
\* begins no more than the bar duration of its measure after p; no NoteToNote
\* edge joins notes of different Parts
C29_Voiceleading ==
    \A e \in vlEdges :
        e.type = "NoteToNote" =>
            LET p == vlNotes[e.start]
                n == vlNotes[e.end] IN
            /\ ~p.isRest /\ ~n.isRest
            /\ p.part = n.part
            /\ p.voice = n.voice
            /\ e.start < e.end
            /\ \A k \in (e.start + 1)..(e.end - 1) :
                 vlNotes[k].isRest \/ vlNotes[k].voice # n.voice
            /\ n.offset - p.offset <= n.barDuration

\* the second Part has a NoteToNote edge, and a note of its voice was
\* recorded in the first Part
C29_Witness ==
    \E e \in vlEdges :
        /\ e.type = "NoteToNote"
        /\ vlNotes[e.end].part = 2
        /\ \E k \in 1..Len(vlNotes) :
             /\ vlNotes[k].part = 1
             /\ ~vlNotes[k].isRest
             /\ vlNotes[k].voice = vlNotes[e.end].voice

\* ---------------------------------------------------------------------------
\* Materialization: Query._addHierarchicalMusic21Data (lines 1541-1558) run on
\* the node map and the relation list that music21Score builds

\* the largest number of relationship handles in the lists
MaxRelates == 3

\* the store: a Score with a Part and a StaffGroup, two Measures, two Notes, a
\* Beam and an Instrument
StoredNodes ==
    {[kind |-> "Node", id |-> 1, type |-> "Score"],
     [kind |-> "Node", id |-> 3, type |-> "Part"],
     [kind |-> "Node", id |-> 4, type |-> "Measure"],
     [kind |-> "Node", id |-> 5, type |-> "Note"],
     [kind |-> "Node", id |-> 6, type |-> "Note"],
     [kind |-> "Node", id |-> 7, type |-> "Measure"],
     [kind |-> "Node", id |-> 8, type |-> "Beam"],
     [kind |-> "Node", id |-> 9, type |-> "Instrument"],
     [kind |-> "Node", id |-> 10, type |-> "StaffGroup"]}

\* its relationships: those _addNode and the Spanner callback write (lines
\* 745-747, 642, 651), and one of type 'spanner' written by another program
StoredRelationships ==
    {[kind |-> "Relationship", id |-> 1, type |-> "NoteInMeasure",
      start_node |-> 5, end_node |-> 4],
     [kind |-> "Relationship", id |-> 2, type |-> "MeasureInPart",
      start_node |-> 4, end_node |-> 3],
     [kind |-> "Relationship", id |-> 3, type |-> "PartInScore",
      start_node |-> 3, end_node |-> 1],
     [kind |-> "Relationship", id |-> 4, type |-> "NoteInMeasure",
      start_node |-> 6, end_node |-> 4],
     [kind |-> "Relationship", id |-> 5, type |-> "MeasureInPart",
      start_node |-> 7, end_node |-> 3],
     [kind |-> "Relationship", id |-> 6, type |-> "BeamInNote",
      start_node |-> 8, end_node |-> 5],
     [kind |-> "Relationship", id |-> 7, type |-> "InstrumentInPart",
      start_node |-> 9, end_node |-> 3],
     [kind |-> "Relationship", id |-> 8, type |-> "spanner",
      start_node |-> 6, end_node |-> 5],
     [kind |-> "Relationship", id |-> 9, type |-> "spannerTo",
      start_node |-> 5, end_node |-> 6],
     [kind |-> "Relationship", id |-> 10, type |-> "StaffGroupInScore",
      start_node |-> 10, end_node |-> 1],
     [kind |-> "Relationship", id |-> 11, type |-> "PartInStaffGroup",
      start_node |-> 3, end_node |-> 10]}

\* the lists of relationship handles, in every order
RelateLists ==
    UNION {Orderings(S) : S \in {T \in SUBSET StoredRelationships :
                                    Cardinality(T) <= MaxRelates}}

\* the handles of a set, by ascending id
RECURSIVE ById(_)
ById(S) ==
    IF S = {} THEN <<>>
    ELSE LET h == CHOOSE x \in S : \A y \in S : x.id <= y.id
         IN <<h>> \o ById(S \ {h})

\* the nodes the materialization starts from
Roots == {n \in StoredNodes : n.type \in {"Score", "Part", "Measure", "Note"}}

\* what _addHierarchicalNodes leaves in the list but for the handles its
\* queries find: lines 1477-1479 collect the nodes and relationships of the
\* list by id, lines 1517-1518 append them to the list
ExtendResults(items) ==
    items \o ById({h \in Range(items) : IsNode(h)})
          \o ById({h \in Range(items) : ~IsNode(h)})

\* self._addHierarchicalMusic21Data(parent, parentId, nodes, relates) on the
\* map of all stored nodes and a list of relation tuples
Materialize(root, rs) ==
    /\ mOp = ""
    /\ mOp' = "_addHierarchicalMusic21Data"
    /\ mRoot' = Some(root.id)
    /\ mRelates' = rs
    /\ mOut' = Some(AddHierarchicalMusic21Data(root.type, root.id,
                        NodeMap(GetResultProperties(ById(StoredNodes))),
                        GetResultProperties(rs), Cardinality(StoredNodes), NoChildren))
    /\ UNCHANGED <<queryState, earlyVars, moduloVars, propertyVars, voiceVars,
                   hierarchyVars>>

\* music21Score on a list of all the nodes of the store and some of its
\* relationships, without the queries of _addHierarchicalNodes and with the
\* Score node as it is meant to be found: lines 1261-1272 and 1275-1276
Reconstruct(rs) ==
    /\ mOp = ""
    /\ mOp' = "music21Score"
    /\ mRoot' = Some(1)
    /\ mRelates' = rs
    /\ LET result == GetResultProperties(ExtendResults(ById(StoredNodes) \o rs))
       IN mOut' = Some(AddHierarchicalMusic21Data("Score", 1, NodeMap(result),
                           RelationTuples(result), Cardinality(StoredNodes),
                           NoChildren))
    /\ UNCHANGED <<queryState, earlyVars, moduloVars, propertyVars, voiceVars,
                   hierarchyVars>>

NextMaterialize ==
    \/ \E root \in Roots : \E rs \in RelateLists : Materialize(root, rs)
    \/ \E rs \in RelateLists : Reconstruct(rs)

SpecMaterialize == Init /\ [][NextMaterialize]_vars

\* C23: the children of a parent are made in ascending order of the ids of
\* the relationships that link them to it, in whatever order the list holds
\* them, and a relationship is followed only if its type ends in
\* In<ParentTypeName> or is spannerTo
C23_OrderedChildren ==
    mOp = "_addHierarchicalMusic21Data" =>
        LET events == mOut[1].events IN
        /\ \A i, j \in 1..Len(events) :
             (i < j /\ events[i].parent = events[j].parent) =>
                 events[i].rel < events[j].rel
        /\ \A i \in 1..Len(events) :
             \/ EndsWith(events[i].type, "In" \o events[i].parentType)
             \/ events[i].type = "spannerTo"


\* the relationships of the list that the materialization follows from a
\* node of a type
Below(id, type) ==
    {r \in Range(mRelates) :
        /\ r.end_node = id
        /\ EndsWith(r.type, "In" \o type) \/ Contains("spannerTo", r.type)}

\* C24: when the callback of the type of a relationship, or the default one
\* when the type has none, returns None, no stored property is copied, the
\* child is not put into the node lookup and its own relationships are not
\* followed; when it returns a child, the properties are copied, the child
\* is put into the lookup and its relationships are followed
C24_Sentinel ==
    mOp # "" =>
        LET events == mOut[1].events IN
        \A i \in 1..Len(events) :
            IF events[i].returned
            THEN /\ events[i].copied
                 /\ events[i].after = events[i].before \cup {events[i].child}
                 /\ Below(events[i].child, events[i].childType) # {} =>
                        /\ i < Len(events)
                        /\ events[i + 1].parent = events[i].child
            ELSE /\ ~events[i].copied
                 /\ events[i].after = events[i].before
                 /\ i < Len(events) => events[i + 1].parent # events[i].child

\* a StaffGroup was made from the default callback and the materialization
\* went on below it; the callback of PartInStaffGroup returned None for a
\* Part that has a Measure in the list
C24_Witness ==
    /\ mOp # ""
    /\ mOut[1].err = ""
    /\ \E i, j \in 1..Len(mOut[1].events) :
         /\ mOut[1].events[i].returned
         /\ mOut[1].events[i].type = "StaffGroupInScore"
         /\ j = i + 1
         /\ ~mOut[1].events[j].returned
         /\ mOut[1].events[j].parent = mOut[1].events[i].child
         /\ Below(mOut[1].events[j].child, mOut[1].events[j].childType) # {}

StoredOffset(id) == IF id = 4 THEN FloatLit(FALSE, 0, 0) ELSE FloatLit(FALSE, 4, 0)

\* Database.listRelationshipTypes() (lines 362-379): a dict per relationship
\* type, with the types of the nodes it joins
ListedRelationshipTypes ==
    {[start |-> (CHOOSE n \in StoredNodes : n.id = r.start_node).type,
      type |-> r.type,
      end |-> (CHOOSE n \in StoredNodes : n.id = r.end_node).type] :
        r \in StoredRelationships}

\* the lists the steps are run on
HierarchyLists ==
    {ById(S) : S \in {T \in SUBSET (StoredNodes \cup StoredRelationships) :
                         Cardinality(T) <= MaxResults}}

\* float(x) where x is a number
Float(x) == IF x.k = "float" THEN x ELSE FloatLit(x.n < 0, Abs(x.n), 0)

\* the order and the equality of two floats
FloatLess(a, b) ==
    LET va == (IF a.neg THEN 0 - a.m ELSE a.m) * Power10(b.d)
        vb == (IF b.neg THEN 0 - b.m ELSE b.m) * Power10(a.d)
    IN va < vb

FloatEq(a, b) == ~FloatLess(a, b) /\ ~FloatLess(b, a)

\* Query._addChildren (lines 1530-1539): a Query is made that starts at the
\* node, the relationship is added by the name of its type, and what the
\* Query finds is put into the maps
AddChildren(node, rType, ns, rs) ==
    LET n == NodeInit(<<>>, None, None, Some(node.id))
        added == AddRelationshipObject(<<>>, {}, StrArg(rType))
        found == {r \in StoredRelationships : r.type = rType /\ r.end_node = node.id}
    IN IF n.err # "" \/ added.err # ""
       THEN [err |-> IF n.err # "" THEN n.err ELSE added.err, nodes |-> ns,
             relations |-> rs]
       ELSE [err |-> "",
             nodes |-> ns \cup {node} \cup
                       {x \in StoredNodes : \E r \in found : r.start_node = x.id},
             relations |-> rs \cup found]

\* _addChildren for (node, type) pairs in turn, up to the first that raises
RECURSIVE AddChildrenInTurn(_, _, _, _)
AddChildrenInTurn(pairs, ns, rs, calls) ==
    IF Len(pairs) = 0 THEN [err |-> "", nodes |-> ns, relations |-> rs, calls |-> calls]
    ELSE LET c == AddChildren(pairs[1][1], pairs[1][2], ns, rs)
             made == Append(calls, <<pairs[1][1].id, pairs[1][2]>>)
         IN IF c.err # "" THEN c @@ [calls |-> made]
            ELSE AddChildrenInTurn(Tail(pairs), c.nodes, c.relations, made)

\* lines 1477-1479: the nodes and relationships of the list, by their ids
FilterNodesAndRelationships(items) ==
    /\ hPc = "idle"
    /\ hPc' = "filtered"
    /\ hNodes' = {h \in Range(items) : IsNode(h)}
    /\ hRelations' = {h \in Range(items) : ~IsNode(h)}
    /\ UNCHANGED <<hBegan, hErr, fetched, scoreOffset, firstMeasure>>
    /\ UNCHANGED <<queryState, earlyVars, moduloVars, propertyVars, voiceVars,
                   materialVars>>

\* the Measure handles of a set of handles
MeasuresOf(ns) == {x \in ns : x.type = "Measure"}

\* a score offset that is the greatest of the offsets of the measures
ScoreOffsetOfLast(measures) ==
    IF measures = {} THEN [err |-> "IndexError", v |-> None]
    ELSE [err |-> "",
          v |-> Some(Float(StoredOffset(
                    (CHOOSE m \in measures : \A o \in measures :
                        ~FloatLess(Float(StoredOffset(m.id)),
                                   Float(StoredOffset(o.id)))).id)))]

\* line 1501: sorted([float(offset) of every measure])[0]
ScoreOffset(measures) ==
    IF measures = {} THEN [err |-> "IndexError", v |-> None]
    ELSE [err |-> "",
          v |-> Some(Float(StoredOffset(
                    (CHOOSE m \in measures : \A o \in measures :
                        ~FloatLess(Float(StoredOffset(o.id)),
                                   Float(StoredOffset(m.id)))).id)))]

\* lines 1499-1503: the least offset of the measures is kept, and the notes
\* of every measure are asked for, in the order the dict yields the measures
FillSiblings ==
    /\ hPc = "filtered"
    /\ hPc' = "siblings"
    /\ hBegan' = hNodes
    /\ LET measures == MeasuresOf(hNodes)
           least == ScoreOffset(measures) IN
       IF least.err # ""
       THEN /\ hErr' = least.err
            /\ UNCHANGED <<hNodes, hRelations, fetched, scoreOffset>>
       ELSE /\ scoreOffset' = least.v
            /\ \E order \in Orderings(measures) :
               \E done \in {AddChildrenInTurn([i \in 1..Len(order) |->
                                                 <<order[i], "NoteInMeasure">>],
                                             hNodes, hRelations, <<>>)} :
                 /\ hErr' = done.err
                 /\ hNodes' = done.nodes
                 /\ hRelations' = done.relations
                 /\ fetched' = done.calls
    /\ UNCHANGED firstMeasure
    /\ UNCHANGED <<queryState, earlyVars, moduloVars, propertyVars, voiceVars,
                   materialVars>>

\* lines 1511-1515: the relationship types through which the children of a
\* node of a type are asked for
Descends(r, nType) ==
    /\ r.end = nType
    /\ EndsWith(r.type, "In" \o nType) \/ r.type = "spannerTo"
    /\ r.type \notin {"NoteInMeasure", "MomentInScore", "PartInScore", "MeasureInPart"}

\* the relationship types of the store through which the children of a node
\* are asked for, in the order of the list of types: the relationship of the
\* least id stands for its type
DescendingTypes(node) ==
    LET heads == {r \in StoredRelationships :
                     /\ \A o \in StoredRelationships : o.type = r.type => r.id <= o.id
                     /\ \E t \in ListedRelationshipTypes :
                            t.type = r.type /\ Descends(t, node.type)}
        order == ById(heads)
    IN [i \in 1..Len(order) |-> <<node, order[i].type>>]

RECURSIVE DescendingPairs(_)
DescendingPairs(order) ==
    IF Len(order) = 0 THEN <<>>
    ELSE DescendingTypes(order[1]) \o DescendingPairs(Tail(order))

\* lines 1505-1516: for every node that `nodes` holds when the loop begins,
\* the children are asked for through every relationship type that ends in
\* its type, in the order the dict yields the nodes
AddDescendants ==
    /\ hPc = "filtered"
    /\ hPc' = "descendants"
    /\ hBegan' = hNodes
    /\ \E order \in Orderings(hNodes) :
       \E done \in {AddChildrenInTurn(DescendingPairs(order), hNodes, hRelations,
                                      <<>>)} :
         /\ hErr' = done.err
         /\ hNodes' = done.nodes
         /\ hRelations' = done.relations
         /\ fetched' = done.calls
    /\ UNCHANGED <<scoreOffset, firstMeasure>>
    /\ UNCHANGED <<queryState, earlyVars, moduloVars, propertyVars, voiceVars,
                   materialVars>>

\* line 1330 of the MeasureInPart callback addSignaturesAndClefs:
\* _convertFromString(measureDict['offset']) == self.scoreOffset
FirstMeasure(offset, least) ==
    LET v == ConvertFromString(offset)
    IN v.k \in {"float", "int"} /\ FloatEq(Float(v), least)

\* the MeasureInPart callback on a measure of `nodes`: the flag is computed,
\* and the clef and the signatures are inserted when it is set or when they
\* are new in this measure
AddSignaturesAndClefs(measure, isNew) ==
    /\ scoreOffset # None
    /\ measure \in MeasuresOf(hNodes)
    /\ \A f \in firstMeasure : f.measure # measure.id
    /\ LET flag == FirstMeasure(StoredOffset(measure.id), scoreOffset[1]) IN
       firstMeasure' = firstMeasure \cup
           {[measure |-> measure.id, flag |-> flag, inserted |-> flag \/ isNew,
             measures |-> {m.id : m \in MeasuresOf(hNodes)}]}
    /\ UNCHANGED <<hPc, hNodes, hRelations, hBegan, hErr, fetched, scoreOffset>>
    /\ UNCHANGED <<queryState, earlyVars, moduloVars, propertyVars, voiceVars,
                   materialVars>>

NextHierarchy ==
    \/ \E items \in HierarchyLists : FilterNodesAndRelationships(items)
    \/ FillSiblings
    \/ AddDescendants
    \/ \E measure \in StoredNodes : \E isNew \in BOOLEAN :
         AddSignaturesAndClefs(measure, isNew)

SpecHierarchy == Init /\ [][NextHierarchy]_vars

\* C21: after the step that fills in the siblings, every stored node that a
\* NoteInMeasure relationship joins to a Measure of the node map is in the
\* node map, and the relationship is in the relationship map, whether the
\* list held them or not
C21_SiblingsFilled ==
    hPc = "siblings" =>
        \A m \in MeasuresOf(hNodes) :
        \A r \in StoredRelationships :
            (r.type = "NoteInMeasure" /\ r.end_node = m.id) =>
                /\ r \in hRelations
                /\ \E n \in hNodes : n.id = r.start_node


\* C22: the step that adds the descendants pulls in one more layer: the
\* children are asked for only for the nodes the map held when the step
\* began, only through relationship types named <X>In<nodeType> or spannerTo
\* and never through NoteInMeasure, MeasureInPart or PartInScore, and what
\* these relationships join to those nodes is in the maps after the step
C22_OneLayer ==
    hPc = "descendants" =>
        /\ \A i \in 1..Len(fetched) :
             \E n \in hBegan :
                /\ n.id = fetched[i][1]
                /\ \/ EndsWith(fetched[i][2], "In" \o n.type)
                   \/ fetched[i][2] = "spannerTo"
                /\ fetched[i][2] \notin {"NoteInMeasure", "MeasureInPart", "PartInScore"}
        /\ \A n \in hBegan : \A r \in StoredRelationships :
             (/\ r.end_node = n.id
              /\ \E t \in ListedRelationshipTypes : t.type = r.type /\ Descends(t, n.type))
             => /\ r \in hRelations
                /\ \E c \in hNodes : c.id = r.start_node

====
